---------------------------- MODULE Spec2Model ----------------------------
(***************************************************************************)
(* Model of the AI accident-detection service                              *)
(* (ai-service-python/app/main.py, services/accident_client.py).           *)
(*                                                                         *)
(* Numbers.  Box coordinates are small integers.  An overlap ratio         *)
(* (inter / union) is kept as the reduced fraction <<num, den>>, so two    *)
(* ratios are equal exactly when the quotients are equal.  Confidences are *)
(* in percent.  The clock is in whole seconds.                             *)
(***************************************************************************)
EXTENDS Integers, Sequences, FiniteSets, TLC

VARIABLES
    camera_states,  \* main.py 62: camera_id -> per-camera state, created lazily
    now,            \* the clock read by time.time(), in whole seconds
    files,          \* every snapshot written by cv2.imwrite, in order: [name, img]
    reports,        \* every call of send_incident_to_backend, in order
    response,       \* the VideoAnalysisResponse of the last request
    req,            \* the last request: [camera_id, img]
    decoded,        \* camera_id -> number of frames of that camera decoded so far
    ticks,          \* number of clock advances so far
    faulted,        \* every raised imwrite / plot exception so far, in order
    call,           \* the pending call of a pure function: [fn, arg]
    ret             \* its result: NoRet until the function has been applied, then Ret(v)

liveVars == <<camera_states, now, files, reports, response, req, decoded, ticks, faulted>>
pureVars == <<call, ret>>
vars == <<camera_states, now, files, reports, response, req, decoded, ticks, faulted, call, ret>>

None == "None"
NoCall == [fn |-> "none", arg |-> <<>>]
NoRet == [done |-> FALSE]
Ret(v) == [done |-> TRUE, val |-> v]

(***************************************************************************)
(* Bounds of the model.                                                    *)
(***************************************************************************)
MaxBoxes == 3      \* longest list of boxes given to compute_max_overlap_ratio
MaxDet == 3        \* longest list of detections of one frame
MaxPool == 3       \* longest candidate pool given to the choice of the best entry
MaxFrames == 8     \* decoded frames in one run of the one-camera specification
MaxFramesCams == 5 \* decoded frames in one run of the two-camera specification
MaxTicks == 3      \* clock advances in one run
TickSeconds == 30  \* seconds per clock advance
StartTime == 1000  \* time.time() when the service starts
MaxFaults == 1     \* imwrite / plot exceptions in one run
MaxVideoFrames == 15   \* frames of an uploaded video
MaxStripedFrames == 12 \* frames of an uploaded video whose analyzed frames show any scenes
MaxFramesEndpoints == 6  \* live frames in one run of the specification of both endpoints
MaxFramesStreams == 7    \* decoded frames in one run of the specification of two streams
MaxFramesInflight == 5   \* requests accepted in one run of the specification of concurrent requests
MaxInflight == 3         \* requests in flight at a time
MaxFramesJobs == 6
MaxUploads == 2

\* Sizes of the program that the model scales down to keep the runs short.
\* The code has FRAME_BUFFER_SIZE = 30 (main.py 49), deque(maxlen=15) for the
\* candidate frames (main.py 75) and POST_CAPTURE_FRAMES = 5 * 5 (main.py 56).
FRAME_BUFFER_SIZE == 6
CANDIDATE_MAXLEN == 4
POST_CAPTURE_FRAMES == 4

(***************************************************************************)
(* Program constants.                                                      *)
(***************************************************************************)
CONF_THRESH == 30              \* 0.3, in percent
ACCIDENT_CONFIRM_FRAMES == 3
ALERT_COOLDOWN_SECONDS == 60
PRE_SNAPSHOT_COUNT == 5
NO_ALERT_YET_SECONDS == 9999   \* time_since_last_alert when last_alert_time is 0.0

(***************************************************************************)
(* Arithmetic helpers.                                                     *)
(***************************************************************************)
Max2(a, b) == IF a >= b THEN a ELSE b
Min2(a, b) == IF a <= b THEN a ELSE b

RECURSIVE Gcd(_, _)
Gcd(a, b) == IF b = 0 THEN a ELSE Gcd(b, a % b)

\* inter / union as a float: equal quotients give equal values
Div(n, d) == LET g == Gcd(n, d) IN <<n \div g, d \div g>>
ZeroRatio == <<0, 1>>
OneRatio == <<1, 1>>
RatioGT(a, b) == a[1] * b[2] > b[1] * a[2]
RatioGE(a, b) == a[1] * b[2] >= b[1] * a[2]

(***************************************************************************)
(* boxes_overlap (main.py 98-110).  A box is <<x1, y1, x2, y2>>.           *)
(***************************************************************************)
boxes_overlap(box1, box2) ==
    IF box1[3] < box2[1] \/ box2[3] < box1[1] THEN FALSE
    ELSE IF box1[4] < box2[2] \/ box2[4] < box1[2] THEN FALSE
    ELSE TRUE

(***************************************************************************)
(* compute_max_overlap_ratio (main.py 116-155): the two nested loops.      *)
(***************************************************************************)
BoxArea(b) == Max2(0, b[3] - b[1]) * Max2(0, b[4] - b[2])

\* one iteration of the inner loop body (main.py 133-154): the new max_ratio
PairStep(b1, area1, b2, max_ratio) ==
    LET area2 == BoxArea(b2)
        iw == Max2(0, Min2(b1[3], b2[3]) - Max2(b1[1], b2[1]))
        ih == Max2(0, Min2(b1[4], b2[4]) - Max2(b1[2], b2[2]))
        inter == iw * ih
        union == area1 + area2 - inter
    IN  IF area2 <= 0 THEN max_ratio
        ELSE IF inter <= 0 THEN max_ratio
        ELSE IF union <= 0 THEN max_ratio
        ELSE IF RatioGT(Div(inter, union), max_ratio) THEN Div(inter, union)
        ELSE max_ratio

RECURSIVE InnerLoop(_, _, _, _)
InnerLoop(boxes, i, j, max_ratio) ==
    IF j > Len(boxes) THEN max_ratio
    ELSE InnerLoop(boxes, i, j + 1,
                   PairStep(boxes[i], BoxArea(boxes[i]), boxes[j], max_ratio))

RECURSIVE OuterLoop(_, _, _)
OuterLoop(boxes, i, max_ratio) ==
    IF i > Len(boxes) THEN max_ratio
    ELSE IF BoxArea(boxes[i]) <= 0 THEN OuterLoop(boxes, i + 1, max_ratio)
    ELSE OuterLoop(boxes, i + 1, InnerLoop(boxes, i, i + 1, max_ratio))

\* a plausible slip: the inner loop starts at i + 2 and misses adjacent pairs
RECURSIVE OuterLoopSkipsNeighbour(_, _, _)
OuterLoopSkipsNeighbour(boxes, i, max_ratio) ==
    IF i > Len(boxes) THEN max_ratio
    ELSE IF BoxArea(boxes[i]) <= 0
         THEN OuterLoopSkipsNeighbour(boxes, i + 1, max_ratio)
    ELSE OuterLoopSkipsNeighbour(boxes, i + 1,
                                 InnerLoop(boxes, i, i + 2, max_ratio))

compute_max_overlap_ratio_skips(boxes) ==
    IF Len(boxes) < 2 THEN ZeroRatio ELSE OuterLoopSkipsNeighbour(boxes, 1, ZeroRatio)

compute_max_overlap_ratio(boxes) ==
    IF Len(boxes) < 2 THEN ZeroRatio ELSE OuterLoop(boxes, 1, ZeroRatio)

(***************************************************************************)
(* Frame scoring of detect_accident (main.py 311-387).  A detection is     *)
(* [label, conf, box]; the detector's output for a frame is a sequence of  *)
(* detections.                                                             *)
(***************************************************************************)
danger_class_names == {"person", "car", "truck", "motorcycle", "bus"}
vehicle_classes == {"car", "truck", "motorcycle", "bus"}
person_classes == {"person"}

\* main.py 327-345: the loop over r.boxes; acc is the tuple of loop variables
RECURSIVE CountLoop(_, _, _)
CountLoop(dets, i, acc) ==
    IF i > Len(dets) THEN acc
    ELSE LET d == dets[i] IN
         IF d.conf < CONF_THRESH THEN CountLoop(dets, i + 1, acc)
         ELSE CountLoop(dets, i + 1,
                [filtered_boxes_xyxy |-> Append(acc.filtered_boxes_xyxy, d.box),
                 total_danger_detections |->
                     acc.total_danger_detections
                       + (IF d.label \in danger_class_names THEN 1 ELSE 0),
                 vehicle_count |->
                     acc.vehicle_count
                       + (IF d.label \in vehicle_classes THEN 1 ELSE 0),
                 primary_vehicle_type |->
                     IF d.label \in vehicle_classes /\ acc.primary_vehicle_type = None
                     THEN d.label ELSE acc.primary_vehicle_type,
                 person_count |->
                     acc.person_count
                       + (IF d.label \in person_classes THEN 1 ELSE 0)])

CountInit ==
    [filtered_boxes_xyxy |-> <<>>, total_danger_detections |-> 0,
     vehicle_count |-> 0, primary_vehicle_type |-> None, person_count |-> 0]

\* main.py 347-355: the pair loops with their two breaks
RECURSIVE CollisionInner(_, _, _)
CollisionInner(boxes, i, j) ==
    IF j > Len(boxes) THEN FALSE
    ELSE IF boxes_overlap(boxes[i], boxes[j]) THEN TRUE
    ELSE CollisionInner(boxes, i, j + 1)

RECURSIVE CollisionOuter(_, _)
CollisionOuter(boxes, i) ==
    IF i > Len(boxes) THEN FALSE
    ELSE IF CollisionInner(boxes, i, i + 1) THEN TRUE
    ELSE CollisionOuter(boxes, i + 1)

\* main.py 366-373
AccidentDecisionNoDangerRule(collision_detected, vehicle_count, person_count, total_danger_detections) ==
    IF collision_detected /\ vehicle_count >= 2 THEN TRUE
    ELSE IF collision_detected /\ person_count >= 1 THEN TRUE
    ELSE FALSE

AccidentDecision(collision_detected, vehicle_count, person_count, total_danger_detections) ==
    IF collision_detected /\ vehicle_count >= 2 THEN TRUE
    ELSE IF collision_detected /\ person_count >= 1 THEN TRUE
    ELSE IF vehicle_count >= 1 /\ person_count >= 1 /\ total_danger_detections >= 3
         THEN TRUE
    ELSE FALSE

\* main.py 375-383
SeverityOfMediumFirst(collision_detected, vehicle_count, person_count) ==
    IF vehicle_count >= 1 /\ person_count >= 2 THEN "MEDIUM"
    ELSE IF collision_detected /\ vehicle_count >= 2 THEN "CRITICAL"
    ELSE IF collision_detected /\ person_count >= 1 THEN "MAJOR"
    ELSE "MINOR"

SeverityOf(collision_detected, vehicle_count, person_count) ==
    IF collision_detected /\ vehicle_count >= 2 THEN "CRITICAL"
    ELSE IF collision_detected /\ person_count >= 1 THEN "MAJOR"
    ELSE IF vehicle_count >= 1 /\ person_count >= 2 THEN "MEDIUM"
    ELSE "MINOR"

\* main.py 385-386: severity_order.get(severity, 1)
severity_order(severity) ==
    CASE severity = "MINOR" -> 1
      [] severity = "MEDIUM" -> 2
      [] severity = "MAJOR" -> 3
      [] severity = "CRITICAL" -> 4
      [] OTHER -> 1

\* main.py 311-387: everything detect_accident derives from the detector's
\* output for one frame
ScoreFrame(dets) ==
    LET c == IF Len(dets) > 0 THEN CountLoop(dets, 1, CountInit) ELSE CountInit
        collision_detected ==
            IF Len(dets) > 0 THEN CollisionOuter(c.filtered_boxes_xyxy, 1) ELSE FALSE
        severity == SeverityOf(collision_detected, c.vehicle_count, c.person_count)
    IN  [vehicle_count |-> c.vehicle_count,
         person_count |-> c.person_count,
         total_danger_detections |-> c.total_danger_detections,
         primary_vehicle_type |-> c.primary_vehicle_type,
         collision_detected |-> collision_detected,
         max_overlap_ratio |-> compute_max_overlap_ratio(c.filtered_boxes_xyxy),
         accident_detected_frame |->
             AccidentDecision(collision_detected, c.vehicle_count, c.person_count,
                              c.total_danger_detections),
         severity |-> severity,
         severity_score |-> severity_order(severity),
         victims_estimated |-> IF c.person_count > 0 THEN c.person_count ELSE 1]

(***************************************************************************)
(* Choice of the best candidate (main.py 436-442):                         *)
(*   max(candidate_frames, key=lambda f: (severity_score, overlap_ratio))  *)
(* Python compares the key tuples lexicographically, and max keeps the     *)
(* first of several maximal items.                                         *)
(***************************************************************************)
KeyGT(f, g) ==
    \/ f.severity_score > g.severity_score
    \/ /\ f.severity_score = g.severity_score
       /\ RatioGT(f.overlap_ratio, g.overlap_ratio)

RECURSIVE MaxScan(_, _, _)
MaxScan(pool, i, best) ==
    IF i > Len(pool) THEN best
    ELSE IF KeyGT(pool[i], best) THEN MaxScan(pool, i + 1, pool[i])
    ELSE MaxScan(pool, i + 1, best)

\* a plausible slip: a later entry with an equal key replaces the best one
RECURSIVE MaxScanKeepsLast(_, _, _)
MaxScanKeepsLast(pool, i, best) ==
    IF i > Len(pool) THEN best
    ELSE IF ~KeyGT(best, pool[i]) THEN MaxScanKeepsLast(pool, i + 1, pool[i])
    ELSE MaxScanKeepsLast(pool, i + 1, best)

\* best_frame_data = None
NoEntry == [none |-> TRUE]

ChooseBestKeepsLast(pool) ==
    IF Len(pool) > 0 THEN MaxScanKeepsLast(pool, 2, pool[1]) ELSE NoEntry

\* best_frame_data (main.py 437-442); None when the pool is empty
ChooseBest(pool) ==
    IF Len(pool) > 0 THEN MaxScan(pool, 2, pool[1]) ELSE NoEntry

(***************************************************************************)
(* Live mode: the per-camera state (main.py 61-82) and the handler         *)
(* detect_accident (main.py 257-558).                                      *)
(*                                                                         *)
(* An uploaded frame is [scene, seq]: what the camera saw and the number   *)
(* of the frame on its camera; the scene "garbage" does not decode.  The   *)
(* detector is a function of the image.  An incident tag                   *)
(* f"{camera_id}_{int(now_ts)}" is <<camera_id, now_ts>>, no tag is <<>>;  *)
(* a file name is <<kind, tag, index or uuid>>, no URL is <<>>.            *)
(***************************************************************************)
DefaultCamera == "LIVE_CAM_1"      \* main.py 260
Cameras == {DefaultCamera, "LIVE_CAM_2"}

\* boxes of the scored frames: BoxA and BoxB intersect (IoU 1/7), BoxB and BoxC
\* touch at a corner, BoxA, BoxC and BoxD are pairwise apart, BoxE is the lower
\* half of BoxA (IoU 1/2)
BoxA == <<0, 0, 2, 2>>
BoxB == <<1, 1, 3, 3>>
BoxC == <<3, 3, 4, 4>>
BoxD == <<5, 0, 6, 1>>
BoxE == <<0, 0, 2, 1>>

NoTag == <<>>
NoUrl == <<>>

\* the scenes a camera may see, with the detector's output for each
SceneDets(scene) ==
    CASE scene = "empty" -> <<>>
      [] scene = "car_hits_person" ->
            <<[label |-> "car", conf |-> CONF_THRESH, box |-> BoxA],
              [label |-> "person", conf |-> CONF_THRESH, box |-> BoxB]>>
      [] scene = "cars_touch" ->
            <<[label |-> "car", conf |-> CONF_THRESH, box |-> BoxB],
              [label |-> "car", conf |-> CONF_THRESH, box |-> BoxC]>>
      [] scene = "car_over_person" ->
            <<[label |-> "car", conf |-> CONF_THRESH, box |-> BoxA],
              [label |-> "person", conf |-> CONF_THRESH, box |-> BoxE]>>
LiveScenes == {"empty", "car_hits_person", "cars_touch"}

Decodable(content) == content.scene # "garbage"
Detect(img) == SceneDets(img.scene)

\* main.py 305-387 for the frames of each scene
ScoreOfScene == [scene \in LiveScenes |-> ScoreFrame(Detect([scene |-> scene, seq |-> 0]))]

\* main.py 71-81
NewCameraState ==
    [accident_counter |-> 0,
     frame_buffer |-> <<>>,
     candidate_frames |-> <<>>,
     last_alert_time |-> 0,
     post_capture_remaining |-> 0,
     post_capture_counter |-> 0,
     current_incident_tag |-> NoTag]

\* a plausible slip: the state of a new camera is the dict of a camera that is
\* already known
CameraStatesWithSharedDict(camera_id) ==
    IF camera_id \in DOMAIN camera_states THEN camera_states
    ELSE [c \in DOMAIN camera_states \cup {camera_id} |->
             IF c # camera_id THEN camera_states[c]
             ELSE IF DOMAIN camera_states = {} THEN NewCameraState
                  ELSE camera_states[CHOOSE d \in DOMAIN camera_states : TRUE]]

\* main.py 65-82: get_camera_state, as the new map and the state it returns
CameraStatesWith(camera_id) ==
    IF camera_id \in DOMAIN camera_states THEN camera_states
    ELSE [c \in DOMAIN camera_states \cup {camera_id} |->
             IF c = camera_id THEN NewCameraState ELSE camera_states[c]]

\* a plausible slip: a list in the place of the deque
DequeAppendUnbounded(q, x, maxlen) == Append(q, x)

\* deque(maxlen=n).append(x)
DequeAppend(q, x, maxlen) ==
    IF Len(q) < maxlen THEN Append(q, x) ELSE Append(Tail(q), x)

\* a plausible slip: the slice takes the oldest frames, list(q)[:n]
LastNTakesFirst(q, n) == IF Len(q) <= n THEN q ELSE SubSeq(q, 1, n)

\* list(q)[-n:]
LastN(q, n) == IF Len(q) <= n THEN q ELSE SubSeq(q, Len(q) - n + 1, Len(q))

ZeroResponse(message) ==
    [message |-> message, accidents_detected |-> 0, incident_ids |-> <<>>]

\* the faults of one request: at most one of the guarded calls raises; the
\* loop over the "before" frames raises at its first or at its second imwrite
NoFault == <<"none", 0>>
PreFaultAt == {0, 1}
Faults ==
    {NoFault, <<"post", 0>>, <<"plot", 0>>, <<"main", 0>>}
      \cup {<<"pre", k>> : k \in PreFaultAt}

\* what the backend answers: a JSON object with an id, no answer (None), or
\* an object without a usable id
BackendReplies == {"id", "none", "no_id"}

\* a plausible slip: the camera's state is looked up before the frame is decoded
DetectAccidentUndecodableCreatesState(camera_id) ==
    /\ req' = [camera_id |-> camera_id, img |-> [scene |-> "garbage", seq |-> 0]]
    /\ response' = ZeroResponse("Could not decode frame.")
    /\ camera_states' = CameraStatesWith(camera_id)
    /\ UNCHANGED <<now, files, reports, decoded, ticks, faulted>>

\* main.py 279-285: the frame does not decode
DetectAccidentUndecodable(camera_id) ==
    /\ req' = [camera_id |-> camera_id, img |-> [scene |-> "garbage", seq |-> 0]]
    /\ response' = ZeroResponse("Could not decode frame.")
    /\ UNCHANGED <<camera_states, now, files, reports, decoded, ticks, faulted>>

\* a plausible slip: the running index is advanced before the save is tried
AfterPostCaptureCountsFailedSave(state, img, fault) ==
    LET state1 == [state EXCEPT !.frame_buffer = DequeAppend(@, img, FRAME_BUFFER_SIZE)]
        runs == /\ state1.post_capture_remaining > 0
                /\ state1.current_incident_tag # NoTag
        post_idx == state1.post_capture_counter
        state2 == [state1 EXCEPT !.post_capture_remaining = @ - 1,
                                 !.post_capture_counter = @ + 1]
    IN  IF runs /\ fault[1] # "post"
        THEN [state |-> state2,
              written |-> <<[name |-> <<"post", state1.current_incident_tag, post_idx>>,
                             img |-> img]>>,
              raised |-> FALSE]
        ELSE [state |-> IF runs THEN state2 ELSE state1, written |-> <<>>, raised |-> runs]

\* a plausible slip: the countdown of "after" frames is never decremented
AfterPostCaptureNoCountdown(state, img, fault) ==
    LET state1 == [state EXCEPT !.frame_buffer = DequeAppend(@, img, FRAME_BUFFER_SIZE)]
        runs == /\ state1.post_capture_remaining > 0
                /\ state1.current_incident_tag # NoTag
        post_idx == state1.post_capture_counter
    IN  IF runs /\ fault[1] # "post"
        THEN [state |-> [state1 EXCEPT !.post_capture_counter = @ + 1],
              written |-> <<[name |-> <<"post", state1.current_incident_tag, post_idx>>,
                             img |-> img]>>,
              raised |-> FALSE]
        ELSE [state |-> state1, written |-> <<>>, raised |-> runs]

\* main.py 287-303: the frame is buffered, then saved as the next "after" frame
\* of the active incident
AfterPostCapture(state, img, fault) ==
    LET state1 == [state EXCEPT !.frame_buffer = DequeAppend(@, img, FRAME_BUFFER_SIZE)]
        runs == /\ state1.post_capture_remaining > 0
                /\ state1.current_incident_tag # NoTag
        post_idx == state1.post_capture_counter
    IN  IF runs /\ fault[1] # "post"
        THEN [state |-> [state1 EXCEPT !.post_capture_remaining = @ - 1,
                                       !.post_capture_counter = @ + 1],
              written |-> <<[name |-> <<"post", state1.current_incident_tag, post_idx>>,
                             img |-> img]>>,
              raised |-> FALSE]
        ELSE [state |-> state1, written |-> <<>>, raised |-> runs]

\* a plausible slip: a frame that is not flagged leaves the counter as it is
AfterAccumulateNoReset(state, r, annotated_img) ==
    IF r.accident_detected_frame
    THEN [state EXCEPT
            !.candidate_frames =
                DequeAppend(@, [severity |-> r.severity,
                                severity_score |-> r.severity_score,
                                overlap_ratio |-> r.max_overlap_ratio,
                                victims_estimated |-> r.victims_estimated,
                                person_count |-> r.person_count,
                                collision_detected |-> r.collision_detected,
                                primary_vehicle_type |-> r.primary_vehicle_type,
                                annotated_img |-> annotated_img],
                            CANDIDATE_MAXLEN),
            !.accident_counter = @ + 1]
    ELSE state

\* main.py 389-411: a flagged frame joins the candidates, any other resets the counter
AfterAccumulate(state, r, annotated_img) ==
    IF r.accident_detected_frame
    THEN [state EXCEPT
            !.candidate_frames =
                DequeAppend(@, [severity |-> r.severity,
                                severity_score |-> r.severity_score,
                                overlap_ratio |-> r.max_overlap_ratio,
                                victims_estimated |-> r.victims_estimated,
                                person_count |-> r.person_count,
                                collision_detected |-> r.collision_detected,
                                primary_vehicle_type |-> r.primary_vehicle_type,
                                annotated_img |-> annotated_img],
                            CANDIDATE_MAXLEN),
            !.accident_counter = @ + 1]
    ELSE [state EXCEPT !.accident_counter = 0]

\* a plausible slip: the cooldown still holds at exactly ALERT_COOLDOWN_SECONDS
InCooldownInclusive(state, now_ts) ==
    LET time_since_last_alert ==
            IF state.last_alert_time # 0 THEN now_ts - state.last_alert_time
            ELSE NO_ALERT_YET_SECONDS
    IN  time_since_last_alert <= ALERT_COOLDOWN_SECONDS

\* a plausible slip: the cooldown is never in force
InCooldownNever(state, now_ts) == FALSE

\* main.py 416-419
InCooldown(state, now_ts) ==
    LET time_since_last_alert ==
            IF state.last_alert_time # 0 THEN now_ts - state.last_alert_time
            ELSE NO_ALERT_YET_SECONDS
    IN  time_since_last_alert < ALERT_COOLDOWN_SECONDS

\* main.py 436-461: the best candidate, or the current frame if there is none
BestFrame(state, r, annotated_img) ==
    LET best_frame_data == ChooseBest(state.candidate_frames)
    IN  IF best_frame_data = NoEntry
        THEN [severity |-> r.severity,
              victims_estimated |-> r.victims_estimated,
              collision_detected |-> r.collision_detected,
              person_count |-> r.person_count,
              primary_vehicle_type |-> r.primary_vehicle_type,
              annotated_img |-> annotated_img]
        ELSE [severity |-> best_frame_data.severity,
              victims_estimated |-> best_frame_data.victims_estimated,
              collision_detected |-> best_frame_data.collision_detected,
              person_count |-> best_frame_data.person_count,
              primary_vehicle_type |-> best_frame_data.primary_vehicle_type,
              annotated_img |-> best_frame_data.annotated_img]

\* main.py 480-489: the "before" files written until imwrite raises
PreFiles(state, incident_tag, fault) ==
    LET pre_frames == LastN(state.frame_buffer, PRE_SNAPSHOT_COUNT)
        n == IF fault[1] = "pre" THEN fault[2] ELSE Len(pre_frames)
    IN  [idx \in 1 .. n |->
            [name |-> <<"pre", incident_tag, idx - 1>>, img |-> pre_frames[idx]]]

\* main.py 491-500
MainFiles(best, incident_tag, uuid, fault) ==
    IF fault[1] = "main" THEN <<>>
    ELSE <<[name |-> <<"main", incident_tag, uuid>>, img |-> best.annotated_img]>>

\* a plausible slip: the time of the alert is not recorded
AfterFinalizeKeepsAlertTime(state, incident_tag, now_ts) ==
    [state EXCEPT !.current_incident_tag = incident_tag,
                  !.post_capture_remaining = POST_CAPTURE_FRAMES,
                  !.post_capture_counter = 0,
                  !.accident_counter = 0,
                  !.candidate_frames = <<>>]

\* main.py 472-474, 502-504, 546-549: the state after a finalized incident
AfterFinalize(state, incident_tag, now_ts) ==
    [state EXCEPT !.current_incident_tag = incident_tag,
                  !.post_capture_remaining = POST_CAPTURE_FRAMES,
                  !.post_capture_counter = 0,
                  !.last_alert_time = now_ts,
                  !.accident_counter = 0,
                  !.candidate_frames = <<>>]

\* a plausible slip: the incident is counted once it is finalized locally
FinalResponseCountsLocal(best, backend, incident_id) ==
    [message |-> <<"Live accident confirmed. Severity=", best.severity>>,
     accidents_detected |-> 1,
     incident_ids |-> IF backend = "id" THEN <<incident_id>> ELSE <<>>]

\* main.py 527-544 and 554-558
FinalResponse(best, backend, incident_id) ==
    [message |-> <<"Live accident confirmed. Severity=", best.severity>>,
     accidents_detected |-> IF backend = "id" THEN 1 ELSE 0,
     incident_ids |-> IF backend = "id" THEN <<incident_id>> ELSE <<>>]

\* whether `fault` can be raised by this request
FaultApplies(fault, post_raised, r, finalizes, state) ==
    CASE fault[1] = "none" -> TRUE
      [] fault[1] = "post" -> post_raised
      [] fault[1] = "plot" -> r.accident_detected_frame
      [] fault[1] = "main" -> finalizes
      [] fault[1] = "pre" ->
            finalizes /\ fault[2] < Len(LastN(state.frame_buffer, PRE_SNAPSHOT_COUNT))

\* a plausible slip: the saves of the "before" and main images are not
\* guarded, and a failure ends the request
DetectAccidentDecodedAbortsOnSaveFailure(camera_id, scene, fault, backend) ==
    LET img == [scene |-> scene, seq |-> decoded[camera_id] + 1]
        states == CameraStatesWith(camera_id)
        post == AfterPostCapture(states[camera_id], img, fault)
        r == ScoreOfScene[img.scene]
        annotated_img == IF fault[1] = "plot" THEN <<"copy", img>> ELSE <<"plot", img>>
        state3 == AfterAccumulate(post.state, r, annotated_img)
        final_decision == state3.accident_counter >= ACCIDENT_CONFIRM_FRAMES
        now_ts == now
        in_cooldown == InCooldown(state3, now_ts)
        finalizes == final_decision /\ ~in_cooldown
        best == BestFrame(state3, r, annotated_img)
        incident_tag == <<camera_id, now_ts>>
        main_files == MainFiles(best, incident_tag, <<"uuid", Len(reports) + 1>>, fault)
        snapshot_url == IF main_files = <<>> THEN NoUrl ELSE main_files[1].name
    IN  /\ fault = NoFault \/ Len(faulted) < MaxFaults
        /\ FaultApplies(fault, post.raised, r, finalizes, state3)
        /\ faulted' = IF fault = NoFault THEN faulted
                      ELSE Append(faulted, [camera_id |-> camera_id, seq |-> img.seq,
                                            kind |-> fault[1]])
        /\ finalizes \/ backend = "none"
        /\ req' = [camera_id |-> camera_id, img |-> img]
        /\ decoded' = [decoded EXCEPT ![camera_id] = @ + 1]
        /\ UNCHANGED <<now, ticks>>
        /\ IF ~final_decision
           THEN /\ camera_states' = [states EXCEPT ![camera_id] = state3]
                /\ files' = files \o post.written
                /\ response' = ZeroResponse("No accident detected (temporal-smoothed).")
                /\ UNCHANGED reports
           ELSE IF in_cooldown
           THEN /\ camera_states' = [states EXCEPT ![camera_id] = state3]
                /\ files' = files \o post.written
                /\ response' =
                     ZeroResponse("Accident already reported recently (cooldown active).")
                /\ UNCHANGED reports
           ELSE IF fault[1] \in {"pre", "main"}
           THEN /\ camera_states' =
                     [states EXCEPT ![camera_id] =
                         [state3 EXCEPT !.current_incident_tag = incident_tag]]
                /\ files' = files \o post.written \o PreFiles(state3, incident_tag, fault)
                /\ response' = ZeroResponse("Could not save snapshots.")
                /\ UNCHANGED reports
           ELSE /\ camera_states' =
                     [states EXCEPT ![camera_id] = AfterFinalize(state3, incident_tag, now_ts)]
                /\ files' = files \o post.written
                                  \o PreFiles(state3, incident_tag, fault)
                                  \o main_files
                /\ reports' = Append(reports,
                                  [camera_id |-> camera_id,
                                   severity |-> best.severity,
                                   victims |-> best.victims_estimated,
                                   source |-> "LIVE_YOLO",
                                   snapshot_url |-> snapshot_url,
                                   time |-> now_ts,
                                   frame |-> img])
                /\ response' = FinalResponse(best, backend, Len(reports) + 1)

\* a plausible slip: the per-incident state is reset only when the backend
\* has returned an identifier
DetectAccidentDecodedResetOnSuccess(camera_id, scene, fault, backend) ==
    LET img == [scene |-> scene, seq |-> decoded[camera_id] + 1]
        states == CameraStatesWith(camera_id)
        post == AfterPostCapture(states[camera_id], img, fault)
        r == ScoreOfScene[img.scene]
        annotated_img == IF fault[1] = "plot" THEN <<"copy", img>> ELSE <<"plot", img>>
        state3 == AfterAccumulate(post.state, r, annotated_img)
        final_decision == state3.accident_counter >= ACCIDENT_CONFIRM_FRAMES
        now_ts == now
        in_cooldown == InCooldown(state3, now_ts)
        finalizes == final_decision /\ ~in_cooldown
        best == BestFrame(state3, r, annotated_img)
        incident_tag == <<camera_id, now_ts>>
        main_files == MainFiles(best, incident_tag, <<"uuid", Len(reports) + 1>>, fault)
        snapshot_url == IF main_files = <<>> THEN NoUrl ELSE main_files[1].name
    IN  /\ fault = NoFault \/ Len(faulted) < MaxFaults
        /\ FaultApplies(fault, post.raised, r, finalizes, state3)
        /\ faulted' = IF fault = NoFault THEN faulted
                      ELSE Append(faulted, [camera_id |-> camera_id, seq |-> img.seq,
                                            kind |-> fault[1]])
        /\ finalizes \/ backend = "none"
        /\ req' = [camera_id |-> camera_id, img |-> img]
        /\ decoded' = [decoded EXCEPT ![camera_id] = @ + 1]
        /\ UNCHANGED <<now, ticks>>
        /\ IF ~final_decision
           THEN /\ camera_states' = [states EXCEPT ![camera_id] = state3]
                /\ files' = files \o post.written
                /\ response' = ZeroResponse("No accident detected (temporal-smoothed).")
                /\ UNCHANGED reports
           ELSE IF in_cooldown
           THEN /\ camera_states' = [states EXCEPT ![camera_id] = state3]
                /\ files' = files \o post.written
                /\ response' =
                     ZeroResponse("Accident already reported recently (cooldown active).")
                /\ UNCHANGED reports
           ELSE /\ camera_states' =
                     [states EXCEPT ![camera_id] =
                         IF backend = "id"
                         THEN AfterFinalize(state3, incident_tag, now_ts)
                         ELSE [state3 EXCEPT
                                 !.current_incident_tag = incident_tag,
                                 !.post_capture_remaining = POST_CAPTURE_FRAMES,
                                 !.post_capture_counter = 0]]
                /\ files' = files \o post.written
                                  \o PreFiles(state3, incident_tag, fault)
                                  \o main_files
                /\ reports' = Append(reports,
                                  [camera_id |-> camera_id,
                                   severity |-> best.severity,
                                   victims |-> best.victims_estimated,
                                   source |-> "LIVE_YOLO",
                                   snapshot_url |-> snapshot_url,
                                   time |-> now_ts,
                                   frame |-> img])
                /\ response' = FinalResponse(best, backend, Len(reports) + 1)

\* main.py 257-558, a frame that decodes
DetectAccidentDecoded(camera_id, scene, fault, backend) ==
    LET img == [scene |-> scene, seq |-> decoded[camera_id] + 1]
        states == CameraStatesWith(camera_id)
        post == AfterPostCapture(states[camera_id], img, fault)
        r == ScoreOfScene[img.scene]
        annotated_img == IF fault[1] = "plot" THEN <<"copy", img>> ELSE <<"plot", img>>
        state3 == AfterAccumulate(post.state, r, annotated_img)
        final_decision == state3.accident_counter >= ACCIDENT_CONFIRM_FRAMES
        now_ts == now
        in_cooldown == InCooldown(state3, now_ts)
        finalizes == final_decision /\ ~in_cooldown
        best == BestFrame(state3, r, annotated_img)
        incident_tag == <<camera_id, now_ts>>
        main_files == MainFiles(best, incident_tag, <<"uuid", Len(reports) + 1>>, fault)
        snapshot_url == IF main_files = <<>> THEN NoUrl ELSE main_files[1].name
    IN  /\ fault = NoFault \/ Len(faulted) < MaxFaults
        /\ FaultApplies(fault, post.raised, r, finalizes, state3)
        /\ faulted' = IF fault = NoFault THEN faulted
                      ELSE Append(faulted, [camera_id |-> camera_id, seq |-> img.seq,
                                            kind |-> fault[1]])
        /\ finalizes \/ backend = "none"
        /\ req' = [camera_id |-> camera_id, img |-> img]
        /\ decoded' = [decoded EXCEPT ![camera_id] = @ + 1]
        /\ UNCHANGED <<now, ticks>>
        /\ IF ~final_decision
           THEN /\ camera_states' = [states EXCEPT ![camera_id] = state3]
                /\ files' = files \o post.written
                /\ response' = ZeroResponse("No accident detected (temporal-smoothed).")
                /\ UNCHANGED reports
           ELSE IF in_cooldown
           THEN /\ camera_states' = [states EXCEPT ![camera_id] = state3]
                /\ files' = files \o post.written
                /\ response' =
                     ZeroResponse("Accident already reported recently (cooldown active).")
                /\ UNCHANGED reports
           ELSE /\ camera_states' =
                     [states EXCEPT ![camera_id] = AfterFinalize(state3, incident_tag, now_ts)]
                /\ files' = files \o post.written
                                  \o PreFiles(state3, incident_tag, fault)
                                  \o main_files
                /\ reports' = Append(reports,
                                  [camera_id |-> camera_id,
                                   severity |-> best.severity,
                                   victims |-> best.victims_estimated,
                                   source |-> "LIVE_YOLO",
                                   snapshot_url |-> snapshot_url,
                                   time |-> now_ts,
                                   frame |-> img])
                /\ response' = FinalResponse(best, backend, Len(reports) + 1)

\* the clock advances between two requests
Tick ==
    /\ ticks < MaxTicks
    /\ ticks' = ticks + 1
    /\ now' = now + TickSeconds
    /\ UNCHANGED <<camera_states, files, reports, response, req, decoded, faulted>>

InitLive ==
    /\ camera_states = <<>>
    /\ now = StartTime
    /\ files = <<>>
    /\ reports = <<>>
    /\ response = ZeroResponse("")
    /\ req = [camera_id |-> None, img |-> [scene |-> "garbage", seq |-> 0]]
    /\ decoded = [c \in Cameras |-> 0]
    /\ ticks = 0
    /\ faulted = <<>>

Init ==
    /\ InitLive
    /\ call = NoCall
    /\ ret = NoRet

\* the service with one camera, the default one, whose frames all decode and
\* whose saves and plots may raise
OnDecodedFrame ==
    \E scene \in {"empty", "car_hits_person"}, fault \in Faults, backend \in BackendReplies :
        /\ decoded[DefaultCamera] < MaxFrames
        /\ DetectAccidentDecoded(DefaultCamera, scene, fault, backend)
        /\ UNCHANGED pureVars

ClockAdvances == Tick /\ UNCHANGED pureVars

Next == OnDecodedFrame \/ ClockAdvances

Spec == Init /\ [][Next]_vars

\* the service with two cameras, whose frames interleave in any order and may
\* fail to decode
TotalDecoded == decoded[DefaultCamera] + decoded["LIVE_CAM_2"]

OnDecodedFrameOfAnyCamera ==
    \E camera_id \in Cameras, scene \in LiveScenes, backend \in BackendReplies :
        /\ TotalDecoded < MaxFramesCams
        /\ DetectAccidentDecoded(camera_id, scene, NoFault, backend)
        /\ UNCHANGED pureVars

OnUndecodableFrameOfAnyCamera ==
    \E camera_id \in Cameras :
        /\ DetectAccidentUndecodable(camera_id)
        /\ UNCHANGED pureVars

NextCams == OnDecodedFrameOfAnyCamera \/ OnUndecodableFrameOfAnyCamera \/ ClockAdvances

SpecCams == Init /\ [][NextCams]_vars

(***************************************************************************)
(* Inputs of the pure functions.                                           *)
(***************************************************************************)
RECURSIVE SeqsUpTo(_, _)
SeqsUpTo(S, n) ==
    IF n = 0 THEN {<<>>}
    ELSE LET shorter == SeqsUpTo(S, n - 1)
         IN  shorter \cup {Append(q, x) : q \in {r \in shorter : Len(r) = n - 1}, x \in S}

\* boxes with x1 <= x2 and y1 <= y2, zero-area ones included
GeomBoxes ==
    {b \in (0 .. 3) \X {0} \X (0 .. 3) \X (0 .. 1) : b[1] <= b[3]}

ScoreBoxes == {BoxA, BoxB, BoxC, BoxD}
ScoreLabels == {"person", "car", "dog"}
ScoreConfs == {CONF_THRESH - 1, CONF_THRESH}
ScoreDets == [label : ScoreLabels, conf : ScoreConfs, box : ScoreBoxes]

(***************************************************************************)
(* Specification of compute_max_overlap_ratio on every list of at most     *)
(* MaxBoxes boxes.                                                         *)
(***************************************************************************)
InitGeom ==
    /\ InitLive
    /\ call \in [fn : {"compute_max_overlap_ratio"}, arg : SeqsUpTo(GeomBoxes, MaxBoxes)]
    /\ ret = NoRet

CallComputeMaxOverlapRatio ==
    /\ call.fn = "compute_max_overlap_ratio"
    /\ ret = NoRet
    /\ ret' = Ret(compute_max_overlap_ratio(call.arg))
    /\ UNCHANGED call
    /\ UNCHANGED liveVars

NextGeom == CallComputeMaxOverlapRatio

SpecGeom == InitGeom /\ [][NextGeom]_vars

(***************************************************************************)
(* Specification of the frame scoring on every list of at most MaxDet      *)
(* detections.                                                             *)
(***************************************************************************)
InitScore ==
    /\ InitLive
    /\ call \in [fn : {"score"}, arg : SeqsUpTo(ScoreDets, MaxDet)]
    /\ ret = NoRet

CallScoreFrame ==
    /\ call.fn = "score"
    /\ ret = NoRet
    /\ ret' = Ret(ScoreFrame(call.arg))
    /\ UNCHANGED call
    /\ UNCHANGED liveVars

NextScore == CallScoreFrame

SpecScore == InitScore /\ [][NextScore]_vars

(***************************************************************************)
(* Specification of the choice of the best candidate on every pool of at   *)
(* most MaxPool entries.  An entry's image is its position in the pool, so *)
(* entries with equal keys are still told apart.                           *)
(***************************************************************************)
Severities == {"MINOR", "MEDIUM", "MAJOR", "CRITICAL"}
SelectKinds == Severities \X {ZeroRatio, <<1, 7>>, <<1, 2>>}

EntryOfKind(k, img) ==
    [severity |-> k[1], severity_score |-> severity_order(k[1]),
     overlap_ratio |-> k[2], victims_estimated |-> 1, person_count |-> 0,
     collision_detected |-> k[2] # ZeroRatio, primary_vehicle_type |-> None,
     annotated_img |-> img]

SelectPools ==
    {[i \in 1 .. Len(ks) |-> EntryOfKind(ks[i], i)] : ks \in SeqsUpTo(SelectKinds, MaxPool)}

InitSelect ==
    /\ InitLive
    /\ call \in [fn : {"choose_best"}, arg : SelectPools]
    /\ ret = NoRet

CallChooseBest ==
    /\ call.fn = "choose_best"
    /\ ret = NoRet
    /\ ret' = Ret(ChooseBest(call.arg))
    /\ UNCHANGED call
    /\ UNCHANGED liveVars

NextSelect == CallChooseBest

SpecSelect == InitSelect /\ [][NextSelect]_vars

(***************************************************************************)
(* What the claims say, stated without the loops of the code.              *)
(***************************************************************************)
\* closed rectangles share a point
SharePoint(a, b) == a[1] <= b[3] /\ b[1] <= a[3] /\ a[2] <= b[4] /\ b[2] <= a[4]

\* intersection over union of two boxes, 0 when it is not defined or empty
IoU(a, b) ==
    LET w == Min2(a[3], b[3]) - Max2(a[1], b[1])
        h == Min2(a[4], b[4]) - Max2(a[2], b[2])
        inter == IF w > 0 /\ h > 0 THEN w * h ELSE 0
        areaA == (a[3] - a[1]) * (a[4] - a[2])
        areaB == (b[3] - b[1]) * (b[4] - b[2])
    IN  IF inter = 0 THEN ZeroRatio ELSE Div(inter, areaA + areaB - inter)

PairIoUs(boxes) ==
    {IoU(boxes[p[1]], boxes[p[2]]) :
        p \in {q \in (1 .. Len(boxes)) \X (1 .. Len(boxes)) : q[1] < q[2]}}

MaxIoU(boxes) ==
    IF PairIoUs(boxes) = {} THEN ZeroRatio
    ELSE CHOOSE r \in PairIoUs(boxes) : \A q \in PairIoUs(boxes) : RatioGE(r, q)

PermsOf ==
    [n \in 0 .. MaxBoxes |->
        {f \in [1 .. n -> 1 .. n] : \A i, j \in 1 .. n : i # j => f[i] # f[j]}]
Perms(n) == PermsOf[n]
Permuted(boxes, f) == [i \in 1 .. Len(boxes) |-> boxes[f[i]]]

GeomDone == call.fn = "compute_max_overlap_ratio" /\ ret.done

\* C10 (as stated): compute_max_overlap_ratio returns 0 for 0 or 1 boxes, the
\* same value for every permutation of the list, 1.0 for two identical boxes,
\* and always the maximum IoU over the pairs, a value in [0, 1].
C10_Original ==
    GeomDone =>
        /\ Len(call.arg) < 2 => ret.val = ZeroRatio
        /\ \A f \in Perms(Len(call.arg)) :
               compute_max_overlap_ratio(Permuted(call.arg, f)) = ret.val
        /\ (Len(call.arg) = 2 /\ call.arg[1] = call.arg[2]) => ret.val = OneRatio
        /\ RatioGE(ret.val, ZeroRatio) /\ RatioGE(OneRatio, ret.val)
        /\ ret.val = MaxIoU(call.arg)

\* C10 (amended): as above, but two identical boxes give 1.0 only when their
\* area is positive; two identical zero-area boxes are skipped and give 0.
C10_MaxOverlapRatio ==
    GeomDone =>
        /\ Len(call.arg) < 2 => ret.val = ZeroRatio
        /\ \A f \in Perms(Len(call.arg)) :
               compute_max_overlap_ratio(Permuted(call.arg, f)) = ret.val
        /\ (Len(call.arg) = 2 /\ call.arg[1] = call.arg[2]) =>
               ret.val = IF BoxArea(call.arg[1]) > 0 THEN OneRatio ELSE ZeroRatio
        /\ RatioGE(ret.val, ZeroRatio) /\ RatioGE(OneRatio, ret.val)
        /\ ret.val = MaxIoU(call.arg)

\* three boxes, one of zero area, whose best pair is not the first one
C10_Witness ==
    /\ GeomDone
    /\ Len(call.arg) = 3
    /\ BoxArea(call.arg[1]) = 0
    /\ ret.val = <<1, 2>>
    /\ IoU(call.arg[2], call.arg[3]) = <<1, 2>>

(***************************************************************************)
(* The frame scorer, stated over the set of confidence-filtered detections. *)
(***************************************************************************)
ScoreDone == call.fn = "score" /\ ret.done

Kept(dets) == {i \in 1 .. Len(dets) : dets[i].conf >= CONF_THRESH}
NumVehicles(dets) == Cardinality({i \in Kept(dets) : dets[i].label \in vehicle_classes})
NumPersons(dets) == Cardinality({i \in Kept(dets) : dets[i].label = "person"})
NumDanger(dets) == Cardinality({i \in Kept(dets) : dets[i].label \in danger_class_names})
SomePairOverlaps(dets) ==
    \E i, j \in Kept(dets) : i # j /\ SharePoint(dets[i].box, dets[j].box)

\* C7: severity is a function of (collision_detected, vehicle_count,
\* person_count) only, the first matching rule of CRITICAL (collision and
\* vehicles >= 2), MAJOR (collision and persons >= 1), MEDIUM (vehicles >= 1 and
\* persons >= 2), MINOR; (true,2,0) -> CRITICAL, (true,0,1) -> MAJOR,
\* (false,1,2) -> MEDIUM, (false,0,0) -> MINOR.
C7_Severity ==
    ScoreDone =>
        LET c == SomePairOverlaps(call.arg)
            v == NumVehicles(call.arg)
            p == NumPersons(call.arg)
            critical == c /\ v >= 2
            major == ~critical /\ c /\ p >= 1
            medium == ~critical /\ ~major /\ v >= 1 /\ p >= 2
        IN  /\ ret.val.collision_detected = c
            /\ ret.val.vehicle_count = v
            /\ ret.val.person_count = p
            /\ critical => ret.val.severity = "CRITICAL"
            /\ major => ret.val.severity = "MAJOR"
            /\ medium => ret.val.severity = "MEDIUM"
            /\ (~critical /\ ~major /\ ~medium) => ret.val.severity = "MINOR"
            /\ (c /\ v = 2 /\ p = 0) => ret.val.severity = "CRITICAL"
            /\ (c /\ v = 0 /\ p = 1) => ret.val.severity = "MAJOR"
            /\ (~c /\ v = 1 /\ p = 2) => ret.val.severity = "MEDIUM"
            /\ (~c /\ v = 0 /\ p = 0) => ret.val.severity = "MINOR"

\* a colliding frame with one vehicle and two persons: the MEDIUM rule matches
\* too, and the earlier MAJOR rule wins
C7_Witness ==
    /\ ScoreDone
    /\ ret.val.collision_detected
    /\ ret.val.vehicle_count = 1
    /\ ret.val.person_count = 2
    /\ ret.val.severity = "MAJOR"

\* C8: the single-frame accident flag is true iff (collision and vehicles >= 2)
\* or (collision and persons >= 1) or (vehicles >= 1 and persons >= 1 and
\* danger >= 3), where collision means that some pair of confidence-filtered
\* boxes overlaps and the counts are of detections with conf >= CONF_THRESH.
C8_AccidentFlag ==
    ScoreDone =>
        LET c == SomePairOverlaps(call.arg)
            v == NumVehicles(call.arg)
            p == NumPersons(call.arg)
            d == NumDanger(call.arg)
        IN  /\ ret.val.collision_detected = c
            /\ ret.val.vehicle_count = v
            /\ ret.val.person_count = p
            /\ ret.val.total_danger_detections = d
            /\ ret.val.accident_detected_frame
                  = ((c /\ v >= 2) \/ (c /\ p >= 1) \/ (v >= 1 /\ p >= 1 /\ d >= 3))

\* a frame flagged by the third rule alone: two vehicles and a person, no two
\* of them overlapping
C8_Witness ==
    /\ ScoreDone
    /\ ret.val.accident_detected_frame
    /\ ~ret.val.collision_detected
    /\ ret.val.vehicle_count = 2
    /\ ret.val.total_danger_detections = 3

(***************************************************************************)
(* The candidate selector.                                                 *)
(***************************************************************************)
SelectDone == call.fn = "choose_best" /\ ret.done

SeverityRank(sev) ==
    CASE sev = "MINOR" -> 1 [] sev = "MEDIUM" -> 2 [] sev = "MAJOR" -> 3 [] sev = "CRITICAL" -> 4

\* entry f is at least as good as entry g in the order (rank, overlap ratio)
LexGE(f, g) ==
    \/ SeverityRank(f.severity) > SeverityRank(g.severity)
    \/ /\ SeverityRank(f.severity) = SeverityRank(g.severity)
       /\ RatioGE(f.overlap_ratio, g.overlap_ratio)

\* the example of the specification, [(MEDIUM, 0.2), (CRITICAL, 0.1),
\* (MAJOR, 0.9)], with ratios of the model: MEDIUM 1/7, CRITICAL 0, MAJOR 1/2
ExamplePool ==
    <<EntryOfKind(<<"MEDIUM", <<1, 7>>>>, 1),
      EntryOfKind(<<"CRITICAL", ZeroRatio>>, 2),
      EntryOfKind(<<"MAJOR", <<1, 2>>>>, 3)>>

\* C6: for any non-empty pool the chosen entry maximizes (severityRank,
\* overlap_ratio), a higher severity beating any overlap ratio, and among the
\* entries with the maximal key it is the one inserted first; of the example
\* pool the CRITICAL entry is chosen.
C6_ChooseBest ==
    /\ (SelectDone /\ Len(call.arg) > 0) =>
           \E i \in 1 .. Len(call.arg) :
               /\ ret.val = call.arg[i]
               /\ \A j \in 1 .. Len(call.arg) : LexGE(call.arg[i], call.arg[j])
               /\ \A j \in 1 .. i - 1 : ~LexGE(call.arg[j], call.arg[i])
    /\ (SelectDone /\ call.arg = ExamplePool) => ret.val.severity = "CRITICAL"

\* the pool [(MAJOR, 1/2), (CRITICAL, 1/7), (CRITICAL, 1/7)] : the first
\* CRITICAL entry is chosen, although the MAJOR one has the higher ratio and
\* the last one has the same key
C6_Witness ==
    /\ SelectDone
    /\ Len(call.arg) = 3
    /\ call.arg[1].severity = "MAJOR" /\ call.arg[1].overlap_ratio = <<1, 2>>
    /\ call.arg[2].severity = "CRITICAL" /\ call.arg[3].severity = "CRITICAL"
    /\ call.arg[2].overlap_ratio = <<1, 7>>
    /\ call.arg[3].overlap_ratio = <<1, 7>>
    /\ ret.val.annotated_img = 2

(***************************************************************************)
(* Live mode.                                                              *)
(***************************************************************************)
\* the single-frame accident flag of a decoded frame
Flagged(img) == ScoreOfScene[img.scene].accident_detected_frame

\* the reporter calls made for one camera, in order
ReportsOf(rs, c) == SelectSeq(rs, LAMBDA rp : rp.camera_id = c)

\* the step is a request with a frame of camera c that decodes
DecodedStep(c) == decoded'[c] = decoded[c] + 1

\* the last n frames decoded on camera c are buffered, in order, and flagged
LastFramesFlagged(states, dec, c, n) ==
    /\ c \in DOMAIN states
    /\ Len(states[c].frame_buffer) >= n
    /\ \A k \in 0 .. n - 1 :
          LET img == states[c].frame_buffer[Len(states[c].frame_buffer) - k]
          IN  img.seq = dec[c] - k /\ Flagged(img)

\* C1: the reporter is invoked on a frame only if that frame and the
\* CONFIRM_FRAMES-1 decoded frames before it on the same stream were all
\* flagged; from a fresh stream, CONFIRM_FRAMES-1 flagged frames and one that
\* is not flagged cause no report, and exactly CONFIRM_FRAMES flagged frames
\* cause exactly one report, issued on the last of them.
C1_ReportOnlyAfterStreak ==
    [][/\ Len(reports') > Len(reports) =>
            /\ Decodable(req'.img)
            /\ DecodedStep(req'.camera_id)
            /\ reports'[Len(reports')].camera_id = req'.camera_id
            /\ reports'[Len(reports')].frame = req'.img
            /\ LastFramesFlagged(camera_states', decoded', req'.camera_id,
                                 ACCIDENT_CONFIRM_FRAMES)
       /\ \A c \in Cameras :
            /\ decoded'[c] < ACCIDENT_CONFIRM_FRAMES => ReportsOf(reports', c) = <<>>
            /\ (/\ decoded'[c] = ACCIDENT_CONFIRM_FRAMES
                /\ LastFramesFlagged(camera_states', decoded', c, ACCIDENT_CONFIRM_FRAMES - 1)
                /\ ~LastFramesFlagged(camera_states', decoded', c, 1))
                  => ReportsOf(reports', c) = <<>>
            /\ (/\ decoded'[c] = ACCIDENT_CONFIRM_FRAMES
                /\ LastFramesFlagged(camera_states', decoded', c, ACCIDENT_CONFIRM_FRAMES))
                  => /\ Len(ReportsOf(reports', c)) = 1
                     /\ ReportsOf(reports', c)[1].frame.seq = ACCIDENT_CONFIRM_FRAMES
      ]_vars

\* three flagged frames of a fresh stream, reported on the third
C1_Witness ==
    /\ decoded[DefaultCamera] = ACCIDENT_CONFIRM_FRAMES
    /\ LastFramesFlagged(camera_states, decoded, DefaultCamera, ACCIDENT_CONFIRM_FRAMES)
    /\ Len(reports) = 1
    /\ reports[1].frame = req.img
    /\ req.img.seq = ACCIDENT_CONFIRM_FRAMES

\* the frame of this step ends a run of ACCIDENT_CONFIRM_FRAMES flagged frames
\* of camera c, all of them later than the frame of the camera's last report
ConfirmedBy(c) ==
    LET R == ReportsOf(reports, c)
    IN  /\ LastFramesFlagged(camera_states', decoded', c, ACCIDENT_CONFIRM_FRAMES)
        /\ R # <<>> => decoded'[c] - ACCIDENT_CONFIRM_FRAMES >= R[Len(R)].frame.seq

\* the frame of this step arrives less than ALERT_COOLDOWN_SECONDS after the
\* last report of camera c
Suppressed(c) ==
    LET R == ReportsOf(reports, c)
    IN  R # <<>> /\ now - R[Len(R)].time < ALERT_COOLDOWN_SECONDS

\* C2: after a first streak is reported at time t, a second run of
\* CONFIRM_FRAMES flagged frames that all arrive before t + COOLDOWN_SECONDS
\* produces no second report; if its confirming frame arrives more than
\* COOLDOWN_SECONDS after t, a second report is produced.
C2_CooldownScenario ==
    [][\A c \in Cameras :
          LET R == ReportsOf(reports, c)
              R2 == ReportsOf(reports', c)
          IN  (DecodedStep(c) /\ Len(R) = 1 /\ ConfirmedBy(c)) =>
                /\ now < R[1].time + ALERT_COOLDOWN_SECONDS => R2 = R
                /\ now > R[1].time + ALERT_COOLDOWN_SECONDS =>
                      /\ Len(R2) = 2
                      /\ R2[1] = R[1]
                      /\ R2[2].frame = req'.img
                      /\ R2[2].time = now
      ]_vars

\* a second run suppressed by the cooldown, then a frame reported after it
C2_Witness ==
    /\ Len(reports) = 2
    /\ reports[1].frame.seq = ACCIDENT_CONFIRM_FRAMES
    /\ reports[2].frame.seq = 2 * ACCIDENT_CONFIRM_FRAMES + 1
    /\ reports[2].time > reports[1].time + ALERT_COOLDOWN_SECONDS
    /\ LastFramesFlagged(camera_states, decoded, DefaultCamera, 2 * ACCIDENT_CONFIRM_FRAMES)
    /\ req.img = reports[2].frame

\* C3: two successive reports of one stream are at least COOLDOWN_SECONDS
\* apart; a processed frame makes at most one reporter call, exactly one if
\* it confirms and is not suppressed by the cooldown, none otherwise.
C3_OneReportPerIncident ==
    [][/\ \A c \in Cameras :
            LET R2 == ReportsOf(reports', c)
            IN  \A i \in 1 .. Len(R2) - 1 :
                    R2[i + 1].time - R2[i].time >= ALERT_COOLDOWN_SECONDS
       /\ Len(reports') \in {Len(reports), Len(reports) + 1}
       /\ SubSeq(reports', 1, Len(reports)) = reports
       /\ \A c \in Cameras :
            Len(ReportsOf(reports', c)) - Len(ReportsOf(reports, c))
               = IF DecodedStep(c) /\ ConfirmedBy(c) /\ ~Suppressed(c) THEN 1 ELSE 0
      ]_vars

\* two reports of one stream, and between them a confirming frame that the
\* cooldown suppressed
C3_Witness ==
    /\ Len(reports) = 2
    /\ reports[2].time - reports[1].time >= ALERT_COOLDOWN_SECONDS
    /\ reports[2].frame.seq > reports[1].frame.seq + ACCIDENT_CONFIRM_FRAMES
    /\ LastFramesFlagged(camera_states, decoded, DefaultCamera,
                         decoded[DefaultCamera] - reports[1].frame.seq + 1)
    /\ response.accidents_detected = 1

\* the stream state a request for camera c finds
StateBefore(c) == IF c \in DOMAIN camera_states THEN camera_states[c] ELSE NewCameraState

\* C5: after a decoded frame that is not flagged the streak is 0 and the
\* candidate pool is empty; after a flagged frame that does not finalize the
\* streak is one more and one entry for that frame is appended to the pool.
C5_Accumulation ==
    [][\A c \in Cameras :
          DecodedStep(c) =>
            LET pre == StateBefore(c)
                post == camera_states'[c]
            IN  IF ~Flagged(req'.img)
                THEN /\ post.accident_counter = 0
                     /\ post.candidate_frames = <<>>
                ELSE reports' = reports =>
                     /\ post.accident_counter = pre.accident_counter + 1
                     /\ Len(post.candidate_frames)
                          = Min2(Len(pre.candidate_frames) + 1, CANDIDATE_MAXLEN)
                     /\ post.candidate_frames[Len(post.candidate_frames)].annotated_img[2]
                          = req'.img
                     /\ \A k \in 1 .. Len(post.candidate_frames) - 1 :
                          post.candidate_frames[k]
                            = pre.candidate_frames[Len(pre.candidate_frames) + 1
                                                     - Len(post.candidate_frames) + k]
      ]_vars

\* the "after" files written under an incident tag, in the order of writing
PostFilesOf(tag) == SelectSeq(files, LAMBDA f : f.name[1] = "post" /\ f.name[2] = tag)

\* the files are the frames numbered in Seqs, in increasing order, with the
\* indices 0, 1, 2, ...
FilesAreFrames(F, Seqs) ==
    /\ Len(F) = Cardinality(Seqs)
    /\ \A k \in 1 .. Len(F) :
          /\ F[k].name[3] = k - 1
          /\ F[k].img.seq \in Seqs
          /\ Cardinality({q \in Seqs : q < F[k].img.seq}) = k - 1

\* the frames of camera c decoded after frame s whose save as an "after"
\* frame raised
UnsavedAfter(c, s) ==
    {faulted[i].seq : i \in {j \in 1 .. Len(faulted) :
                               /\ faulted[j].camera_id = c
                               /\ faulted[j].kind = "post"
                               /\ faulted[j].seq > s}}

\* the frame on which the report after the i-th one was made for the same
\* camera, or the camera's last decoded frame if there is none
NextFinalized(i) ==
    LET later == {j \in i + 1 .. Len(reports) : reports[j].camera_id = reports[i].camera_id}
    IN  IF later = {} THEN decoded[reports[i].camera_id]
        ELSE reports[CHOOSE j \in later : \A k \in later : j <= k].frame.seq

\* C4 as stated: the frames persisted under an incident's tag are exactly the
\* next POST_CAPTURE_FRAMES decoded frames after the confirming frame (as many
\* of them as have arrived), in arrival order, and no other frame.
C4_Original ==
    \A i \in 1 .. Len(reports) :
        LET c == reports[i].camera_id
            s == reports[i].frame.seq
        IN  FilesAreFrames(PostFilesOf(<<c, reports[i].time>>),
                           s + 1 .. Min2(s + POST_CAPTURE_FRAMES, decoded[c]))

\* C4: the frames persisted under an incident's tag are, in arrival order,
\* the first POST_CAPTURE_FRAMES decoded frames after the confirming frame
\* whose save did not fail, up to and including the frame on which the
\* stream's next incident is finalized, and no other frame.
C4_PostCapture ==
    \A i \in 1 .. Len(reports) :
        LET c == reports[i].camera_id
            s == reports[i].frame.seq
            saved == (s + 1 .. NextFinalized(i)) \ UnsavedAfter(c, s)
            first == {q \in saved : Cardinality({p \in saved : p < q}) < POST_CAPTURE_FRAMES}
        IN  FilesAreFrames(PostFilesOf(<<c, reports[i].time>>), first)

\* a second incident is finalized while the first is still collecting its
\* "after" frames: the first keeps fewer than POST_CAPTURE_FRAMES of them, the
\* last being the frame that confirmed the second
C4_Witness ==
    /\ Len(reports) = 2
    /\ reports[2].camera_id = reports[1].camera_id
    /\ LET F == PostFilesOf(<<reports[1].camera_id, reports[1].time>>)
       IN  /\ F # <<>>
           /\ Len(F) < POST_CAPTURE_FRAMES
           /\ F[Len(F)].img = reports[2].frame
    /\ faulted = <<>>

\* C9: an undecodable frame yields a zero-accident response and leaves every
\* stream's state unchanged, persists no evidence, makes no reporter call and
\* creates no state for an unseen identifier.
C9_UndecodableFrame ==
    [][(~Decodable(req'.img) /\ now' = now) =>
          /\ response'.accidents_detected = 0
          /\ response'.incident_ids = <<>>
          /\ camera_states' = camera_states
          /\ DOMAIN camera_states' = DOMAIN camera_states
          /\ files' = files
          /\ reports' = reports
          /\ decoded' = decoded
      ]_vars

\* an undecodable frame for a camera never seen, while another camera is in
\* the middle of a streak
C9_Witness ==
    /\ ~Decodable(req.img)
    /\ req.camera_id \in Cameras
    /\ req.camera_id \notin DOMAIN camera_states
    /\ \E c \in DOMAIN camera_states : camera_states[c].accident_counter > 0
    /\ response = ZeroResponse("Could not decode frame.")

\* C17: after a confirmation that the cooldown does not suppress, whatever the
\* reporter returns, the streak is 0, the pool is empty, last_alert_time is
\* the time of the frame, the countdown is POST_CAPTURE_FRAMES, the running
\* index is 0 and a new tag is active; the reporter is called once.
C17_FinalizationEffect ==
    [][\A c \in Cameras :
          Len(ReportsOf(reports', c)) > Len(ReportsOf(reports, c)) =>
            LET pre == StateBefore(c)
                post == camera_states'[c]
            IN  /\ Len(reports') = Len(reports) + 1
                /\ post.accident_counter = 0
                /\ post.candidate_frames = <<>>
                /\ post.last_alert_time = now
                /\ post.post_capture_remaining = POST_CAPTURE_FRAMES
                /\ post.post_capture_counter = 0
                /\ post.current_incident_tag = <<c, now>>
                /\ post.current_incident_tag # pre.current_incident_tag
                /\ post.frame_buffer
                     = DequeAppend(pre.frame_buffer, req'.img, FRAME_BUFFER_SIZE)
      ]_vars

\* an incident finalized while the reporter returned nothing
C17_Witness ==
    /\ reports # <<>>
    /\ reports[Len(reports)].frame = req.img
    /\ response.accidents_detected = 0
    /\ response.incident_ids = <<>>
    /\ camera_states[req.camera_id].accident_counter = 0
    /\ camera_states[req.camera_id].candidate_frames = <<>>
    /\ camera_states[req.camera_id].last_alert_time = now
    /\ camera_states[req.camera_id].post_capture_remaining = POST_CAPTURE_FRAMES

\* the files written by this step
NewFiles == SubSeq(files', Len(files) + 1, Len(files'))

\* C19: a frame that confirms while now - last_alert_time < COOLDOWN_SECONDS
\* sends no report, persists no before/main evidence, leaves the tag, the
\* arming of the countdown and last_alert_time as they are and does not reset
\* the streak and the pool; if the run goes on unbroken, the first flagged
\* frame at or after last_alert_time + COOLDOWN_SECONDS is reported at once.
C19_CooldownSuppression ==
    [][\A c \in Cameras :
          (DecodedStep(c) /\ Flagged(req'.img)) =>
            LET pre == StateBefore(c)
                post == camera_states'[c]
            IN  /\ (/\ pre.accident_counter + 1 >= ACCIDENT_CONFIRM_FRAMES
                    /\ pre.last_alert_time # 0
                    /\ now - pre.last_alert_time < ALERT_COOLDOWN_SECONDS) =>
                      /\ reports' = reports
                      /\ \A k \in 1 .. Len(NewFiles) : NewFiles[k].name[1] = "post"
                      /\ post.current_incident_tag = pre.current_incident_tag
                      /\ post.last_alert_time = pre.last_alert_time
                      /\ post.post_capture_remaining <= pre.post_capture_remaining
                      /\ post.post_capture_counter >= pre.post_capture_counter
                      /\ post.accident_counter = pre.accident_counter + 1
                      /\ post.candidate_frames # <<>>
                      /\ Len(post.candidate_frames) >= Len(pre.candidate_frames)
                      /\ post.candidate_frames[Len(post.candidate_frames)].annotated_img[2]
                           = req'.img
                /\ (/\ pre.accident_counter >= ACCIDENT_CONFIRM_FRAMES
                    /\ pre.last_alert_time # 0
                    /\ now >= pre.last_alert_time + ALERT_COOLDOWN_SECONDS) =>
                      /\ Len(reports') = Len(reports) + 1
                      /\ reports'[Len(reports')].camera_id = c
                      /\ reports'[Len(reports')].frame = req'.img
                      /\ reports'[Len(reports')].time = now
      ]_vars

\* a confirming frame suppressed by the cooldown, and the next flagged frame,
\* arriving exactly COOLDOWN_SECONDS after the first report, reported
C19_Witness ==
    /\ Len(reports) = 2
    /\ reports[2].camera_id = reports[1].camera_id
    /\ reports[2].time = reports[1].time + ALERT_COOLDOWN_SECONDS
    /\ reports[2].frame.seq = reports[1].frame.seq + ACCIDENT_CONFIRM_FRAMES + 1
    /\ reports[2].frame = req.img
    /\ LastFramesFlagged(camera_states, decoded, req.camera_id, ACCIDENT_CONFIRM_FRAMES + 1)

\* the incident tags given so far
TagsGiven == {<<reports[i].camera_id, reports[i].time>> : i \in 1 .. Len(reports)}

\* C20: the "after" frames persisted under a tag carry the indices 0, 1, ...,
\* k-1, none skipped or used twice, k <= POST_CAPTURE_FRAMES, in arrival
\* order; each camera has one tag at a time; once a new confirmation has
\* replaced the tag, no further frame is persisted under the old one.
C20_PostNumbering ==
    /\ \A i \in 1 .. Len(reports) :
          LET F == PostFilesOf(<<reports[i].camera_id, reports[i].time>>)
          IN  /\ Len(F) <= POST_CAPTURE_FRAMES
              /\ \A k \in 1 .. Len(F) :
                    /\ F[k].name[3] = k - 1
                    /\ F[k].img.seq > reports[i].frame.seq
                    /\ F[k].img.seq <= NextFinalized(i)
                    /\ k > 1 => F[k].img.seq > F[k - 1].img.seq
    /\ \A k \in 1 .. Len(files) :
          files[k].name[1] = "post" => files[k].name[2] \in TagsGiven
    /\ \A c \in DOMAIN camera_states :
          LET R == ReportsOf(reports, c)
          IN  camera_states[c].current_incident_tag
                = IF R = <<>> THEN NoTag ELSE <<c, R[Len(R)].time>>

\* a tag replaced while its countdown was running, the new tag with "after"
\* frames of its own
C20_Witness ==
    /\ Len(reports) = 2
    /\ reports[2].camera_id = reports[1].camera_id
    /\ faulted # <<>>
    /\ LET F1 == PostFilesOf(<<reports[1].camera_id, reports[1].time>>)
           F2 == PostFilesOf(<<reports[2].camera_id, reports[2].time>>)
       IN  /\ Len(F1) \in 1 .. POST_CAPTURE_FRAMES - 1
           /\ F2 # <<>>

(***************************************************************************)
(* build_expected_injury_report (main.py 161-252).  A joined text is the   *)
(* sequence of its parts.                                                  *)
(***************************************************************************)
MaxVictims == 3    \* largest victim count and person count given to the rule engine

\* main.py 186-193
PriorityLevel(severity) ==
    IF severity = "CRITICAL" THEN "CRITICAL"
    ELSE IF severity = "MAJOR" THEN "HIGH"
    ELSE IF severity = "MEDIUM" THEN "MODERATE"
    ELSE "LOW"

\* main.py 196-204
MechanismOfInjury(vehicle_type, collision_detected, person_count) ==
    LET mech_parts ==
            (IF collision_detected THEN <<"collision detected">> ELSE <<>>)
              \o (IF vehicle_type # None THEN <<<<"involving a", vehicle_type>>>> ELSE <<>>)
              \o (IF person_count > 0 THEN <<<<person_count, "person(s) in scene">>>> ELSE <<>>)
    IN  IF mech_parts = <<>> THEN <<"Road traffic accident">> ELSE mech_parts

\* a plausible slip: the extra region is added only for more than two victims
EstimatedInjuriesAboveTwo(severity, victim_count) ==
    (IF severity \in {"MAJOR", "CRITICAL"}
     THEN <<[region |-> "Head/Neck", risk |-> "HIGH"],
            [region |-> "Chest", risk |-> "MEDIUM"],
            [region |-> "Limbs", risk |-> "MEDIUM"]>>
     ELSE IF severity = "MEDIUM"
     THEN <<[region |-> "Head/Neck", risk |-> "MEDIUM"],
            [region |-> "Limbs", risk |-> "MEDIUM"]>>
     ELSE <<[region |-> "Head/Neck", risk |-> "LOW"],
            [region |-> "Limbs", risk |-> "LOW"]>>)
      \o (IF victim_count > 2
          THEN <<[region |-> "Pelvis/Spine", risk |-> "MEDIUM"]>> ELSE <<>>)

\* main.py 207-223
EstimatedInjuries(severity, victim_count) ==
    (IF severity \in {"MAJOR", "CRITICAL"}
     THEN <<[region |-> "Head/Neck", risk |-> "HIGH"],
            [region |-> "Chest", risk |-> "MEDIUM"],
            [region |-> "Limbs", risk |-> "MEDIUM"]>>
     ELSE IF severity = "MEDIUM"
     THEN <<[region |-> "Head/Neck", risk |-> "MEDIUM"],
            [region |-> "Limbs", risk |-> "MEDIUM"]>>
     ELSE <<[region |-> "Head/Neck", risk |-> "LOW"],
            [region |-> "Limbs", risk |-> "LOW"]>>)
      \o (IF victim_count >= 2
          THEN <<[region |-> "Pelvis/Spine", risk |-> "MEDIUM"]>> ELSE <<>>)

\* main.py 226-240
RecommendedPreparation(priorityLevel) ==
    IF priorityLevel \in {"HIGH", "CRITICAL"}
    THEN <<"Activate trauma team", "Prepare CT scan and X-ray",
           "Prepare IV fluids and blood units">>
    ELSE IF priorityLevel = "MODERATE" THEN <<"Prepare emergency doctor and X-ray">>
    ELSE <<"Basic emergency assessment">>

\* main.py 243-250
SummaryForDoctors(mechanism, victim_count, injuries, prep) ==
    LET at_risk == SelectSeq(injuries, LAMBDA i : i.risk \in {"HIGH", "MEDIUM"})
        at_risk_regions == [k \in 1 .. Len(at_risk) |-> at_risk[k].region]
        regions_text == IF at_risk_regions # <<>> THEN at_risk_regions
                        ELSE <<"no major regions identified">>
    IN  <<mechanism, "with", victim_count, "victim(s). Estimated increased risk of injuries to:",
          regions_text, "Recommended:", prep>>

\* main.py 161-252
build_expected_injury_report(severity, vehicle_type, victim_count, collision_detected, person_count) ==
    LET priorityLevel == PriorityLevel(severity)
        mechanism == MechanismOfInjury(vehicle_type, collision_detected, person_count)
        injuries == EstimatedInjuries(severity, victim_count)
        prep == RecommendedPreparation(priorityLevel)
    IN  [priorityLevel |-> priorityLevel,
         mechanismOfInjury |-> mechanism,
         estimatedInjuries |-> injuries,
         victimInfo |-> [estimatedVictims |-> victim_count, posture |-> "unknown"],
         recommendedPreparation |-> prep,
         summaryForDoctors |-> SummaryForDoctors(mechanism, victim_count, injuries, prep)]

\* the arguments given to the rule engine; "UNKNOWN" is a severity no caller passes
InjuryArgs ==
    [severity : Severities \cup {"UNKNOWN"},
     vehicle_type : {None, "car", "truck"},
     victim_count : 0 .. MaxVictims,
     collision_detected : BOOLEAN,
     person_count : 0 .. MaxVictims]

InitInjury ==
    /\ InitLive
    /\ call \in [fn : {"build_expected_injury_report"}, arg : InjuryArgs]
    /\ ret = NoRet

CallBuildInjuryReport ==
    /\ call.fn = "build_expected_injury_report"
    /\ ret = NoRet
    /\ ret' = Ret(build_expected_injury_report(call.arg.severity, call.arg.vehicle_type,
                                               call.arg.victim_count,
                                               call.arg.collision_detected,
                                               call.arg.person_count))
    /\ UNCHANGED call
    /\ UNCHANGED liveVars

NextInjury == CallBuildInjuryReport

SpecInjury == InitInjury /\ [][NextInjury]_vars

InjuryDone == call.fn = "build_expected_injury_report" /\ ret.done

\* the regions and risks of the claim's table
Risk(region, risk) == [region |-> region, risk |-> risk]

\* C18: priority is CRITICAL/HIGH/MODERATE/LOW for severity CRITICAL/MAJOR/
\* MEDIUM/MINOR; three preparation steps for HIGH or CRITICAL and one
\* otherwise; the region risks follow the table of the severity, with
\* Pelvis/Spine=MEDIUM appended last exactly when victim_count >= 2.
C18_InjuryReport ==
    InjuryDone =>
       LET a == call.arg
           rep == ret.val
           table ==
              CASE a.severity = "CRITICAL" ->
                     [priority |-> "CRITICAL",
                      risks |-> <<Risk("Head/Neck", "HIGH"), Risk("Chest", "MEDIUM"),
                                  Risk("Limbs", "MEDIUM")>>]
                [] a.severity = "MAJOR" ->
                     [priority |-> "HIGH",
                      risks |-> <<Risk("Head/Neck", "HIGH"), Risk("Chest", "MEDIUM"),
                                  Risk("Limbs", "MEDIUM")>>]
                [] a.severity = "MEDIUM" ->
                     [priority |-> "MODERATE",
                      risks |-> <<Risk("Head/Neck", "MEDIUM"), Risk("Limbs", "MEDIUM")>>]
                [] a.severity = "MINOR" ->
                     [priority |-> "LOW",
                      risks |-> <<Risk("Head/Neck", "LOW"), Risk("Limbs", "LOW")>>]
                [] OTHER -> [priority |-> rep.priorityLevel,
                             risks |-> SubSeq(rep.estimatedInjuries, 1, 2)]
           n == Len(rep.estimatedInjuries)
       IN  /\ rep.priorityLevel = table.priority
           /\ Len(rep.recommendedPreparation)
                = IF rep.priorityLevel \in {"HIGH", "CRITICAL"} THEN 3 ELSE 1
           /\ IF a.victim_count >= 2
              THEN /\ n = Len(table.risks) + 1
                   /\ SubSeq(rep.estimatedInjuries, 1, n - 1) = table.risks
                   /\ rep.estimatedInjuries[n] = Risk("Pelvis/Spine", "MEDIUM")
              ELSE rep.estimatedInjuries = table.risks

\* a MAJOR incident with two victims: HIGH priority, three steps, four regions
C18_Witness ==
    /\ InjuryDone
    /\ call.arg.severity = "MAJOR"
    /\ call.arg.victim_count = 2
    /\ ret.val.priorityLevel = "HIGH"
    /\ Len(ret.val.recommendedPreparation) = 3
    /\ Len(ret.val.estimatedInjuries) = 4
    /\ ret.val.estimatedInjuries[4].region = "Pelvis/Spine"

(***************************************************************************)
(* Frame scoring of analyze_video (main.py 619-621, 639-713), a copy of    *)
(* the code of detect_accident that calls the same boxes_overlap and       *)
(* compute_max_overlap_ratio.                                              *)
(***************************************************************************)
video_danger_class_names == {"person", "car", "truck", "motorcycle", "bus"}
video_vehicle_classes == {"car", "truck", "motorcycle", "bus"}
video_person_classes == {"person"}

\* main.py 649-667: the loop over r.boxes
RECURSIVE VideoCountLoop(_, _, _)
VideoCountLoop(dets, i, acc) ==
    IF i > Len(dets) THEN acc
    ELSE LET d == dets[i] IN
         IF d.conf < CONF_THRESH THEN VideoCountLoop(dets, i + 1, acc)
         ELSE VideoCountLoop(dets, i + 1,
                [filtered_boxes_xyxy |-> Append(acc.filtered_boxes_xyxy, d.box),
                 total_danger_detections |->
                     acc.total_danger_detections
                       + (IF d.label \in video_danger_class_names THEN 1 ELSE 0),
                 vehicle_count |->
                     acc.vehicle_count
                       + (IF d.label \in video_vehicle_classes THEN 1 ELSE 0),
                 primary_vehicle_type |->
                     IF d.label \in video_vehicle_classes /\ acc.primary_vehicle_type = None
                     THEN d.label ELSE acc.primary_vehicle_type,
                 person_count |->
                     acc.person_count
                       + (IF d.label \in video_person_classes THEN 1 ELSE 0)])

\* main.py 639-644
VideoCountInit ==
    [filtered_boxes_xyxy |-> <<>>, total_danger_detections |-> 0,
     vehicle_count |-> 0, primary_vehicle_type |-> None, person_count |-> 0]

\* main.py 669-677: the pair loops with their two breaks
RECURSIVE VideoCollisionInner(_, _, _)
VideoCollisionInner(boxes, i, j) ==
    IF j > Len(boxes) THEN FALSE
    ELSE IF boxes_overlap(boxes[i], boxes[j]) THEN TRUE
    ELSE VideoCollisionInner(boxes, i, j + 1)

RECURSIVE VideoCollisionOuter(_, _)
VideoCollisionOuter(boxes, i) ==
    IF i > Len(boxes) THEN FALSE
    ELSE IF VideoCollisionInner(boxes, i, i + 1) THEN TRUE
    ELSE VideoCollisionOuter(boxes, i + 1)

\* a plausible slip: the third rule of the copy asks for two danger detections
VideoAccidentDecisionTwoDanger(collision_detected, vehicle_count, person_count, total_danger_detections) ==
    IF collision_detected /\ vehicle_count >= 2 THEN TRUE
    ELSE IF collision_detected /\ person_count >= 1 THEN TRUE
    ELSE IF vehicle_count >= 1 /\ person_count >= 1 /\ total_danger_detections >= 2
         THEN TRUE
    ELSE FALSE

\* main.py 682-688
VideoAccidentDecision(collision_detected, vehicle_count, person_count, total_danger_detections) ==
    IF collision_detected /\ vehicle_count >= 2 THEN TRUE
    ELSE IF collision_detected /\ person_count >= 1 THEN TRUE
    ELSE IF vehicle_count >= 1 /\ person_count >= 1 /\ total_danger_detections >= 3
         THEN TRUE
    ELSE FALSE

\* main.py 703-710
VideoSeverityOf(collision_detected, vehicle_count, person_count) ==
    IF collision_detected /\ vehicle_count >= 2 THEN "CRITICAL"
    ELSE IF collision_detected /\ person_count >= 1 THEN "MAJOR"
    ELSE IF vehicle_count >= 1 /\ person_count >= 2 THEN "MEDIUM"
    ELSE "MINOR"

\* main.py 605 and 712: severity_order.get(severity, 1)
video_severity_order(severity) ==
    CASE severity = "MINOR" -> 1
      [] severity = "MEDIUM" -> 2
      [] severity = "MAJOR" -> 3
      [] severity = "CRITICAL" -> 4
      [] OTHER -> 1

\* main.py 639-713: everything analyze_video derives from the detector's
\* output for one frame; the severity, its score and the victims are those it
\* computes when the frame is confirmed
VideoScoreFrame(dets) ==
    LET c == IF Len(dets) > 0 THEN VideoCountLoop(dets, 1, VideoCountInit) ELSE VideoCountInit
        collision_detected ==
            IF Len(dets) > 0 THEN VideoCollisionOuter(c.filtered_boxes_xyxy, 1) ELSE FALSE
        severity == VideoSeverityOf(collision_detected, c.vehicle_count, c.person_count)
    IN  [vehicle_count |-> c.vehicle_count,
         person_count |-> c.person_count,
         total_danger_detections |-> c.total_danger_detections,
         primary_vehicle_type |-> c.primary_vehicle_type,
         collision_detected |-> collision_detected,
         max_overlap_ratio |-> compute_max_overlap_ratio(c.filtered_boxes_xyxy),
         accident_detected_frame |->
             VideoAccidentDecision(collision_detected, c.vehicle_count, c.person_count,
                                   c.total_danger_detections),
         severity |-> severity,
         severity_score |-> video_severity_order(severity),
         victims_estimated |-> IF c.person_count > 0 THEN c.person_count ELSE 1]

(***************************************************************************)
(* Both scorings on every list of at most MaxDet detections.               *)
(***************************************************************************)
InitScoreBoth ==
    /\ InitLive
    /\ call \in [fn : {"score_both"}, arg : SeqsUpTo(ScoreDets, MaxDet)]
    /\ ret = NoRet

CallBothScoreFrames ==
    /\ call.fn = "score_both"
    /\ ret = NoRet
    /\ ret' = Ret([live |-> ScoreFrame(call.arg), video |-> VideoScoreFrame(call.arg)])
    /\ UNCHANGED call
    /\ UNCHANGED liveVars

NextScoreBoth == CallBothScoreFrames

SpecScoreBoth == InitScoreBoth /\ [][NextScoreBoth]_vars

ScoreBothDone == call.fn = "score_both" /\ ret.done

\* C15: for every list of detections the counts, the collision flag, the
\* overlap ratio, the accident flag, the severity, victims_estimated and
\* primary_vehicle_type of detect_accident equal those of analyze_video.
C15_SameScoring ==
    ScoreBothDone =>
       /\ ret.val.live.vehicle_count = ret.val.video.vehicle_count
       /\ ret.val.live.person_count = ret.val.video.person_count
       /\ ret.val.live.total_danger_detections = ret.val.video.total_danger_detections
       /\ ret.val.live.collision_detected = ret.val.video.collision_detected
       /\ ret.val.live.max_overlap_ratio = ret.val.video.max_overlap_ratio
       /\ ret.val.live.accident_detected_frame = ret.val.video.accident_detected_frame
       /\ ret.val.live.severity = ret.val.video.severity
       /\ ret.val.live.victims_estimated = ret.val.video.victims_estimated
       /\ ret.val.live.primary_vehicle_type = ret.val.video.primary_vehicle_type

\* a frame flagged by the third rule alone: a car and two persons, apart
C15_Witness ==
    /\ ScoreBothDone
    /\ ~ret.val.live.collision_detected
    /\ ret.val.live.vehicle_count = 1
    /\ ret.val.live.person_count = 2
    /\ ret.val.live.accident_detected_frame
    /\ ret.val.video.accident_detected_frame
    /\ ret.val.video.severity = "MEDIUM"

(***************************************************************************)
(* analyze_video (main.py 564-879).  A video is the sequence of its        *)
(* frames, frame_index counting from 1; a frame is [scene, seq] with seq   *)
(* its index.                                                              *)
(***************************************************************************)
FRAME_STEP == 3
VIDEO_CONFIRM_FRAMES == 3

VideoCamera == "VIDEO_CAM_1"        \* main.py 772, 841
VideoScenes == LiveScenes \cup {"car_over_person"}

\* main.py 635-713 for the frames of each scene
VideoScoreOfScene == [scene \in VideoScenes |-> VideoScoreFrame(SceneDets(scene))]

VideoFrame(frames, frame_index) == [scene |-> frames[frame_index], seq |-> frame_index]

\* best_frame_index and best_annotated_frame before a frame is chosen (None)
NoIndex == 0
NoPlot == <<>>

\* main.py 603-623
Pass1Init ==
    [video_accident_counter |-> 0,
     accident_frames_total |-> 0,
     best_severity |-> "MINOR",
     best_severity_score |-> 0,
     best_overlap_ratio |-> ZeroRatio,
     best_victims |-> 0,
     best_person_count |-> 0,
     best_collision |-> FALSE,
     best_vehicle_type |-> None,
     best_annotated_frame |-> NoPlot,
     best_frame_index |-> NoIndex]

\* a plausible slip: a frame replaces the best one when it is as good
IsBetterOrEqual(severity_score, max_overlap_ratio, best) ==
    \/ severity_score > best.best_severity_score
    \/ /\ severity_score = best.best_severity_score
       /\ RatioGE(max_overlap_ratio, best.best_overlap_ratio)

\* main.py 717-721
IsBetter(severity_score, max_overlap_ratio, best) ==
    \/ severity_score > best.best_severity_score
    \/ /\ severity_score = best.best_severity_score
       /\ RatioGT(max_overlap_ratio, best.best_overlap_ratio)

\* a plausible slip: the streak must exceed VIDEO_CONFIRM_FRAMES
Pass1AnalyzeConfirmsLate(frames, frame_index, acc, fault) ==
    LET r == VideoScoreOfScene[frames[frame_index]]
        counter == IF r.accident_detected_frame THEN acc.video_accident_counter + 1 ELSE 0
        counted == [acc EXCEPT !.video_accident_counter = counter]
    IN  IF counter <= VIDEO_CONFIRM_FRAMES THEN counted
        ELSE LET confirmed == [counted EXCEPT !.accident_frames_total = @ + 1]
             IN  IF ~IsBetter(r.severity_score, r.max_overlap_ratio, confirmed)
                 THEN confirmed
                 ELSE [confirmed EXCEPT
                         !.best_severity_score = r.severity_score,
                         !.best_severity = r.severity,
                         !.best_overlap_ratio = r.max_overlap_ratio,
                         !.best_victims = r.victims_estimated,
                         !.best_person_count = r.person_count,
                         !.best_collision = r.collision_detected,
                         !.best_vehicle_type = r.primary_vehicle_type,
                         !.best_frame_index = frame_index,
                         !.best_annotated_frame =
                             IF fault = <<"video_plot", frame_index>> THEN NoPlot
                             ELSE <<"plot", VideoFrame(frames, frame_index)>>]

\* main.py 691-736: one analyzed frame
Pass1Analyze(frames, frame_index, acc, fault) ==
    LET r == VideoScoreOfScene[frames[frame_index]]
        counter == IF r.accident_detected_frame THEN acc.video_accident_counter + 1 ELSE 0
        counted == [acc EXCEPT !.video_accident_counter = counter]
    IN  IF counter < VIDEO_CONFIRM_FRAMES THEN counted
        ELSE LET confirmed == [counted EXCEPT !.accident_frames_total = @ + 1]
             IN  IF ~IsBetter(r.severity_score, r.max_overlap_ratio, confirmed)
                 THEN confirmed
                 ELSE [confirmed EXCEPT
                         !.best_severity_score = r.severity_score,
                         !.best_severity = r.severity,
                         !.best_overlap_ratio = r.max_overlap_ratio,
                         !.best_victims = r.victims_estimated,
                         !.best_person_count = r.person_count,
                         !.best_collision = r.collision_detected,
                         !.best_vehicle_type = r.primary_vehicle_type,
                         !.best_frame_index = frame_index,
                         !.best_annotated_frame =
                             IF fault = <<"video_plot", frame_index>> THEN NoPlot
                             ELSE <<"plot", VideoFrame(frames, frame_index)>>]

\* main.py 625-736: the loop from the frame frame_index on
RECURSIVE Pass1Loop(_, _, _, _)
Pass1Loop(frames, frame_index, acc, fault) ==
    IF frame_index > Len(frames) THEN acc
    ELSE IF frame_index % FRAME_STEP # 0
         THEN Pass1Loop(frames, frame_index + 1, acc, fault)
         ELSE Pass1Loop(frames, frame_index + 1,
                        Pass1Analyze(frames, frame_index, acc, fault), fault)

\* main.py 779-783
Pass2Init ==
    [written |-> <<>>, frame_index |-> 0, pre_saved |-> 0, post_saved |-> 0,
     main_saved |-> FALSE, snapshot_url |-> NoUrl]

\* a plausible slip: the "after" window starts at the best frame
Pass2FramePostFromBest(frames, frame_index, acc, best, incident_tag, uuid, fault) ==
    LET frame == VideoFrame(frames, frame_index)
        pre_start_index == Max2(1, best.best_frame_index - PRE_SNAPSHOT_COUNT)
        pre_end_index == best.best_frame_index - 1
        post_end_index == best.best_frame_index + POST_CAPTURE_FRAMES
        pre == IF /\ pre_start_index <= frame_index
                  /\ frame_index <= pre_end_index
                  /\ acc.pre_saved < PRE_SNAPSHOT_COUNT
                  /\ fault # <<"video_pre", frame_index>>
               THEN [acc EXCEPT
                       !.written = Append(@, [name |-> <<"video_pre", incident_tag, acc.pre_saved>>,
                                              img |-> frame]),
                       !.pre_saved = @ + 1]
               ELSE acc
        main == IF /\ frame_index = best.best_frame_index
                   /\ ~pre.main_saved
                   /\ best.best_annotated_frame # NoPlot
                   /\ fault # <<"video_main", 0>>
                THEN [pre EXCEPT
                        !.written = Append(@, [name |-> <<"video_main", incident_tag, uuid>>,
                                               img |-> best.best_annotated_frame]),
                        !.snapshot_url = <<"video_main", incident_tag, uuid>>,
                        !.main_saved = TRUE]
                ELSE pre
    IN  IF /\ frame_index >= best.best_frame_index
           /\ frame_index <= post_end_index
           /\ main.post_saved < POST_CAPTURE_FRAMES
           /\ fault # <<"video_post", frame_index>>
        THEN [main EXCEPT
                !.written = Append(@, [name |-> <<"video_post", incident_tag, main.post_saved>>,
                                       img |-> frame]),
                !.post_saved = @ + 1]
        ELSE main

\* main.py 792-822: one frame of the second pass
Pass2Frame(frames, frame_index, acc, best, incident_tag, uuid, fault) ==
    LET frame == VideoFrame(frames, frame_index)
        pre_start_index == Max2(1, best.best_frame_index - PRE_SNAPSHOT_COUNT)
        pre_end_index == best.best_frame_index - 1
        post_end_index == best.best_frame_index + POST_CAPTURE_FRAMES
        pre == IF /\ pre_start_index <= frame_index
                  /\ frame_index <= pre_end_index
                  /\ acc.pre_saved < PRE_SNAPSHOT_COUNT
                  /\ fault # <<"video_pre", frame_index>>
               THEN [acc EXCEPT
                       !.written = Append(@, [name |-> <<"video_pre", incident_tag, acc.pre_saved>>,
                                              img |-> frame]),
                       !.pre_saved = @ + 1]
               ELSE acc
        main == IF /\ frame_index = best.best_frame_index
                   /\ ~pre.main_saved
                   /\ best.best_annotated_frame # NoPlot
                   /\ fault # <<"video_main", 0>>
                THEN [pre EXCEPT
                        !.written = Append(@, [name |-> <<"video_main", incident_tag, uuid>>,
                                               img |-> best.best_annotated_frame]),
                        !.snapshot_url = <<"video_main", incident_tag, uuid>>,
                        !.main_saved = TRUE]
                ELSE pre
    IN  IF /\ frame_index > best.best_frame_index
           /\ frame_index <= post_end_index
           /\ main.post_saved < POST_CAPTURE_FRAMES
           /\ fault # <<"video_post", frame_index>>
        THEN [main EXCEPT
                !.written = Append(@, [name |-> <<"video_post", incident_tag, main.post_saved>>,
                                       img |-> frame]),
                !.post_saved = @ + 1]
        ELSE main

\* main.py 785-826: the loop from the frame frame_index on; acc.frame_index is
\* the index of the last frame read
RECURSIVE Pass2Loop(_, _, _, _, _, _, _)
Pass2Loop(frames, frame_index, acc, best, incident_tag, uuid, fault) ==
    IF frame_index > Len(frames) THEN acc
    ELSE LET read == [acc EXCEPT !.frame_index = frame_index]
             after == Pass2Frame(frames, frame_index, read, best, incident_tag, uuid, fault)
         IN  IF frame_index > best.best_frame_index + POST_CAPTURE_FRAMES THEN after
             ELSE Pass2Loop(frames, frame_index + 1, after, best, incident_tag, uuid, fault)

\* raise HTTPException(status_code=500, detail=...)
HttpError(detail) == [status_code |-> 500, detail |-> detail]

\* main.py 835-879
VideoResponse(best, backend, incident_id) ==
    [message |-> <<"Video analyzed. Max severity detected =", best.best_severity>>,
     accidents_detected |-> IF backend = "id" THEN 1 ELSE 0,
     incident_ids |-> IF backend = "id" THEN <<incident_id>> ELSE <<>>]

\* the faults of one upload: the file cannot be written or opened, or one plot
\* or one imwrite raises
VideoFaults ==
    {NoFault, <<"save_video", 0>>, <<"open", 0>>, <<"reopen", 0>>, <<"video_main", 0>>}
      \cup {<<kind, i>> : kind \in {"video_plot", "video_pre", "video_post"},
                          i \in 1 .. MaxVideoFrames}

\* whether `fault` can be raised while this upload is handled
VideoFaultApplies(frames, best, fault) ==
    LET b == best.best_frame_index
        found == best.best_severity_score # 0 /\ b # NoIndex
    IN  CASE fault[1] \in {"none", "save_video", "open"} -> TRUE
          [] fault[1] = "video_plot" -> found /\ fault[2] = b
          [] fault[1] = "reopen" -> found
          [] fault[1] = "video_main" -> found
          [] fault[1] = "video_pre" ->
                found /\ Max2(1, b - PRE_SNAPSHOT_COUNT) <= fault[2] /\ fault[2] < b
          [] fault[1] = "video_post" ->
                found /\ b < fault[2] /\ fault[2] <= Min2(Len(frames), b + POST_CAPTURE_FRAMES)

\* main.py 564-879: the whole handler on one upload; `ret` keeps what the
\* handler computed in its local variables, the call that raised and what the
\* backend answered
AnalyzeVideo(frames, fault, backend) ==
    LET best == Pass1Loop(frames, 1, Pass1Init, fault)
        found == best.best_severity_score # 0 /\ best.best_frame_index # NoIndex
        now_ts == now
        incident_tag == <<VideoCamera, now_ts>>
        snaps == Pass2Loop(frames, 1, Pass2Init, best, incident_tag,
                           <<"uuid", Len(reports) + 1>>, fault)
    IN  /\ VideoFaultApplies(frames, best, fault)
        /\ (found /\ fault[1] \notin {"save_video", "open", "reopen"}) \/ backend = "none"
        /\ UNCHANGED <<camera_states, now, req, decoded, ticks, faulted>>
        /\ IF fault[1] = "save_video"
           THEN /\ response' = HttpError("Could not save video")
                /\ ret' = Ret([pass1 |-> Pass1Init, pass2 |-> Pass2Init, fault |-> fault,
                            backend |-> backend])
                /\ UNCHANGED <<files, reports>>
           ELSE IF fault[1] = "open"
           THEN /\ response' = HttpError("Could not open video")
                /\ ret' = Ret([pass1 |-> Pass1Init, pass2 |-> Pass2Init, fault |-> fault,
                            backend |-> backend])
                /\ UNCHANGED <<files, reports>>
           ELSE IF ~found
           THEN /\ response' = ZeroResponse("No accident detected in video.")
                /\ ret' = Ret([pass1 |-> best, pass2 |-> Pass2Init, fault |-> fault,
                            backend |-> backend])
                /\ UNCHANGED <<files, reports>>
           ELSE IF fault[1] = "reopen"
           THEN /\ response' = HttpError("Could not open video for snapshots")
                /\ ret' = Ret([pass1 |-> best, pass2 |-> Pass2Init, fault |-> fault,
                            backend |-> backend])
                /\ UNCHANGED <<files, reports>>
           ELSE /\ files' = files \o snaps.written
                /\ reports' = Append(reports,
                                  [camera_id |-> VideoCamera,
                                   severity |-> best.best_severity,
                                   victims |-> best.best_victims,
                                   source |-> "VIDEO",
                                   snapshot_url |-> snaps.snapshot_url,
                                   time |-> now_ts,
                                   frame |-> VideoFrame(frames, best.best_frame_index)])
                /\ response' = VideoResponse(best, backend, Len(reports) + 1)
                /\ ret' = Ret([pass1 |-> best, pass2 |-> snaps, fault |-> fault,
                            backend |-> backend])

(***************************************************************************)
(* The uploads: videos of at most MaxVideoFrames frames.  In a striped     *)
(* video, of at most MaxStripedFrames frames, every frame that is not      *)
(* analyzed shows the same scene and the analyzed frames show any scenes;  *)
(* in a range video the frames a..c show one flagged scene and the others  *)
(* show nothing.                                                           *)
(***************************************************************************)
FlaggedScenes == {s \in VideoScenes : VideoScoreOfScene[s].accident_detected_frame}

StripedVideos ==
    UNION {{[i \in 1 .. n |-> IF i % FRAME_STEP = 0 THEN analyzed[i \div FRAME_STEP]
                              ELSE between] :
              analyzed \in [1 .. (n \div FRAME_STEP) -> VideoScenes],
              between \in {"empty", "car_hits_person"}} :
           n \in 0 .. MaxStripedFrames}

RangeVideo(n, a, c, scene) == [i \in 1 .. n |-> IF a <= i /\ i <= c THEN scene ELSE "empty"]

RangeVideos ==
    {RangeVideo(n, a, c, scene) :
        n \in 1 .. MaxVideoFrames, a \in 1 .. MaxVideoFrames, c \in 1 .. MaxVideoFrames,
        scene \in FlaggedScenes}

VideoUploads == StripedVideos \cup RangeVideos

InitVideo ==
    /\ InitLive
    /\ call \in [fn : {"analyze_video"}, arg : VideoUploads]
    /\ ret = NoRet

CallAnalyzeVideo ==
    \E fault \in VideoFaults, backend \in BackendReplies :
        /\ call.fn = "analyze_video"
        /\ ~ret.done
        /\ AnalyzeVideo(call.arg, fault, backend)
        /\ UNCHANGED call

NextVideo == CallAnalyzeVideo

SpecVideo == InitVideo /\ [][NextVideo]_vars

(***************************************************************************)
(* Claims about analyze_video.                                             *)
(***************************************************************************)
VideoDone == call.fn = "analyze_video" /\ ret.done

\* the upload was stored and opened, so that the first pass ran
Pass1Ran ==
    /\ VideoDone
    /\ response # HttpError("Could not save video")
    /\ response # HttpError("Could not open video")

AnalyzedIndexes(frames) == {i \in 1 .. Len(frames) : i % FRAME_STEP = 0}

VideoFlagged(frames, i) == VideoScoreOfScene[frames[i]].accident_detected_frame

\* the number of consecutive flagged analyzed frames that end with frame i
StreakAt(frames, i) ==
    Cardinality({k \in 1 .. Len(frames) :
                    \A j \in 0 .. k - 1 :
                        /\ i - j * FRAME_STEP >= 1
                        /\ VideoFlagged(frames, i - j * FRAME_STEP)})

ConfirmedIndexes(frames) ==
    {i \in AnalyzedIndexes(frames) :
        VideoFlagged(frames, i) /\ StreakAt(frames, i) >= VIDEO_CONFIRM_FRAMES}

\* the key (severityRank, overlap_ratio) of frame i is above that of frame j
VideoKeyGT(frames, i, j) ==
    LET f == VideoScoreOfScene[frames[i]]
        g == VideoScoreOfScene[frames[j]]
    IN  \/ f.severity_score > g.severity_score
        \/ /\ f.severity_score = g.severity_score
           /\ RatioGT(f.max_overlap_ratio, g.max_overlap_ratio)

\* the confirmed frames whose key no confirmed frame exceeds
MaximalConfirmed(frames) ==
    {i \in ConfirmedIndexes(frames) :
        \A j \in ConfirmedIndexes(frames) : ~VideoKeyGT(frames, j, i)}

\* C12: when the first pass of analyze_video has run, the answer is "no
\* accident", with no report and no file, exactly when no analyzed frame (a
\* frame whose index is a multiple of FRAME_STEP) is flagged with a streak of
\* at least VIDEO_CONFIRM_FRAMES flagged analyzed frames; otherwise
\* best_frame_index is the earliest of the confirmed frames with the maximal
\* key (severity rank, overlap ratio) and is a multiple of FRAME_STEP.
C12_BestConfirmedFrame ==
    Pass1Ran =>
       LET frames == call.arg
           best_frame_index == ret.val.pass1.best_frame_index
       IN  /\ (response = ZeroResponse("No accident detected in video."))
                 <=> (ConfirmedIndexes(frames) = {})
           /\ ConfirmedIndexes(frames) = {} =>
                 /\ reports = <<>>
                 /\ files = <<>>
                 /\ best_frame_index = NoIndex
           /\ ConfirmedIndexes(frames) # {} =>
                 /\ best_frame_index \in MaximalConfirmed(frames)
                 /\ \A j \in MaximalConfirmed(frames) : best_frame_index <= j
                 /\ best_frame_index % FRAME_STEP = 0
                 /\ ret.val.pass1.accident_frames_total
                       = Cardinality(ConfirmedIndexes(frames))

\* two confirmed frames with the same key, among flagged frames that are not
\* analyzed: the first of the two is the best one
C12_Witness ==
    /\ Pass1Ran
    /\ Len(call.arg) = 4 * FRAME_STEP
    /\ VideoFlagged(call.arg, 1)
    /\ ConfirmedIndexes(call.arg) = {3 * FRAME_STEP, 4 * FRAME_STEP}
    /\ MaximalConfirmed(call.arg) = ConfirmedIndexes(call.arg)
    /\ ret.val.pass1.best_frame_index = 3 * FRAME_STEP
    /\ Len(reports) = 1
    /\ reports[1].frame.seq = 3 * FRAME_STEP

\* the analysis ran to its end: no HTTP error was raised
VideoAnalyzed ==
    /\ VideoDone
    /\ "accidents_detected" \in DOMAIN response

FlaggedIndexes(frames) == {i \in 1 .. Len(frames) : VideoFlagged(frames, i)}

\* exactly the frames a..c of the video are flagged
FlaggedExactly(frames, a, c) == a <= c /\ FlaggedIndexes(frames) = a .. c

\* the multiples of FRAME_STEP among a..c
AnalyzedWithin(a, c) == {i \in a .. c : i % FRAME_STEP = 0}

\* the conclusion of C11 for the frames a..c of the uploaded video
C11_Conclusion(frames, a, c) ==
    LET best_frame_index == ret.val.pass1.best_frame_index
    IN  /\ Len(reports) = 1
        /\ reports[1].source = "VIDEO"
        /\ best_frame_index >= a + VIDEO_CONFIRM_FRAMES - 1
        /\ best_frame_index <= c
        /\ (1 < best_frame_index /\ best_frame_index < Len(frames)) =>
              /\ ret.val.pass2.pre_saved \in 1 .. PRE_SNAPSHOT_COUNT
              /\ ret.val.pass2.post_saved \in 1 .. POST_CAPTURE_FRAMES

EndpointUploads ==
    {RangeVideo(VIDEO_CONFIRM_FRAMES * FRAME_STEP + 1, 1, c, "car_hits_person") :
        c \in {0, VIDEO_CONFIRM_FRAMES * FRAME_STEP + 1}}

\* the upload cannot be stored or opened, or the save of the main image raises
EndpointFaults == {fault \in VideoFaults : fault[2] = 0}

OnLiveFrame ==
    \E scene \in {"empty", "car_hits_person"}, backend \in BackendReplies :
        /\ decoded[DefaultCamera] < MaxFramesEndpoints
        /\ DetectAccidentDecoded(DefaultCamera, scene, NoFault, backend)
        /\ call' = [fn |-> "detect_accident", arg |-> <<DefaultCamera, scene>>]
        /\ ret' = Ret([backend |-> backend])

OnLiveUndecodableFrame ==
    /\ DetectAccidentUndecodable(DefaultCamera)
    /\ call' = [fn |-> "detect_accident", arg |-> <<DefaultCamera, "garbage">>]
    /\ ret' = Ret([backend |-> "none"])

OnVideoUpload ==
    \E frames \in EndpointUploads, fault \in EndpointFaults, backend \in BackendReplies :
        /\ \A k \in 1 .. Len(reports) : reports[k].source # "VIDEO"
        /\ AnalyzeVideo(frames, fault, backend)
        /\ call' = [fn |-> "analyze_video", arg |-> frames]

NextEndpoints == OnLiveFrame \/ OnLiveUndecodableFrame \/ OnVideoUpload

SpecEndpoints == Init /\ [][NextEndpoints]_vars

\* the answer is a VideoAnalysisResponse, not an HTTP error
IsAnalysisResponse(rsp) == "accidents_detected" \in DOMAIN rsp

\* C16: in every answer of detect_accident and of analyze_video that is not an
\* HTTP error, accidents_detected is 0 or 1 and is the length of
\* incident_ids; it is 1 only when the call sent a report and the backend
\* answered with an identifier, which is then the one element of
\* incident_ids; otherwise (no confirmation, cooldown, undecodable frame, no
\* usable answer of the backend) it is 0 and incident_ids is empty.
C16_ResponseContract ==
    [][IsAnalysisResponse(response') =>
          LET finalized == Len(reports') = Len(reports) + 1
              answered == ret'.val.backend = "id"
          IN  /\ response'.accidents_detected \in {0, 1}
              /\ response'.accidents_detected = Len(response'.incident_ids)
              /\ response'.accidents_detected = 1 => finalized /\ answered
              /\ (finalized /\ answered) => response'.incident_ids = <<Len(reports')>>
              /\ ~(finalized /\ answered) =>
                    /\ response'.accidents_detected = 0
                    /\ response'.incident_ids = <<>>]_vars

\* the live incident was finalized after a video incident, the backend gave no
\* usable answer, and the answer counts no accident
C16_Witness ==
    /\ call.fn = "detect_accident"
    /\ ret.val.backend = "no_id"
    /\ Len(reports) = 2
    /\ reports[1].source = "VIDEO"
    /\ reports[2].source = "LIVE_YOLO"
    /\ reports[2].frame = req.img
    /\ response.accidents_detected = 0
    /\ response.incident_ids = <<>>

(***************************************************************************)
(* Two streams whose frames interleave, each beside its run alone: `ret`   *)
(* keeps, for each camera, the state, the reports and the files that       *)
(* detect_accident produces from the frames of that camera only, at the    *)
(* times they arrived.                                                     *)
(***************************************************************************)
\* a file without the random part of its name
FileKey(f) ==
    IF f.name[1] = "main" THEN [name |-> <<"main", f.name[2]>>, img |-> f.img] ELSE f

FileKeys(fs) == [k \in 1 .. Len(fs) |-> FileKey(fs[k])]

\* a report without the random part of its snapshot URL
ReportKey(rp) == [rp EXCEPT !.snapshot_url = IF @ = NoUrl THEN NoUrl ELSE <<@[1], @[2]>>]

ReportKeys(rs) == [k \in 1 .. Len(rs) |-> ReportKey(rs[k])]

AloneInit == [state |-> NewCameraState, reports |-> <<>>, files |-> <<>>]

\* main.py 287-549 on the world of one camera: its state, its reports and
\* its files after the frame img at the time now_ts
AloneStep(w, camera_id, img, now_ts) ==
    LET post == AfterPostCapture(w.state, img, NoFault)
        r == ScoreOfScene[img.scene]
        annotated_img == <<"plot", img>>
        state3 == AfterAccumulate(post.state, r, annotated_img)
        final_decision == state3.accident_counter >= ACCIDENT_CONFIRM_FRAMES
        in_cooldown == InCooldown(state3, now_ts)
        best == BestFrame(state3, r, annotated_img)
        incident_tag == <<camera_id, now_ts>>
    IN  IF ~final_decision \/ in_cooldown
        THEN [state |-> state3, reports |-> w.reports, files |-> w.files \o post.written]
        ELSE [state |-> AfterFinalize(state3, incident_tag, now_ts),
              reports |-> Append(w.reports,
                              [camera_id |-> camera_id,
                               severity |-> best.severity,
                               victims |-> best.victims_estimated,
                               source |-> "LIVE_YOLO",
                               snapshot_url |-> <<"main", incident_tag>>,
                               time |-> now_ts,
                               frame |-> img]),
              files |-> w.files \o post.written
                                \o PreFiles(state3, incident_tag, NoFault)
                                \o <<[name |-> <<"main", incident_tag>>,
                                      img |-> best.annotated_img]>>]

InitStreams ==
    /\ InitLive
    /\ call = NoCall
    /\ ret = Ret([c \in Cameras |-> AloneInit])

OnFrameOfStream ==
    \E camera_id \in Cameras, scene \in {"empty", "car_hits_person"},
       backend \in BackendReplies :
        /\ decoded[DefaultCamera] + decoded["LIVE_CAM_2"] < MaxFramesStreams
        /\ DetectAccidentDecoded(camera_id, scene, NoFault, backend)
        /\ ret' = Ret([ret.val EXCEPT ![camera_id] =
                          AloneStep(@, camera_id,
                                    [scene |-> scene, seq |-> decoded[camera_id] + 1], now)])
        /\ UNCHANGED call

OnUndecodableFrameOfStream ==
    \E camera_id \in Cameras :
        /\ DetectAccidentUndecodable(camera_id)
        /\ UNCHANGED pureVars

NextStreams == OnFrameOfStream \/ OnUndecodableFrameOfStream \/ ClockAdvances

SpecStreams == InitStreams /\ [][NextStreams]_vars

\* the files written for camera c
FilesOf(fs, c) == SelectSeq(fs, LAMBDA f : f.name[2][1] = c)

\* a request of camera a leaves the state of every other camera as it was and
\* creates no state for another camera
OthersUntouched ==
    \A b \in Cameras :
       b # req'.camera_id =>
          /\ (b \in DOMAIN camera_states') <=> (b \in DOMAIN camera_states)
          /\ b \in DOMAIN camera_states => camera_states'[b] = camera_states[b]

\* each camera has the state, the reports and the files of its run alone
AloneAgrees ==
    \A c \in Cameras :
       /\ StateBefore(c) = ret.val[c].state
       /\ ReportKeys(ReportsOf(reports, c)) = ret.val[c].reports
       /\ FileKeys(FilesOf(files, c)) = ret.val[c].files

\* C13: a request of one camera leaves the state (streak, pool, ring buffer,
\* last-alert time, countdown, index, tag) of every other camera unchanged,
\* and in every interleaving of the frames of two cameras each camera has the
\* state, the reports and the evidence files that detect_accident yields from
\* that camera's own state, frames and clock readings alone.
C13_StreamIndependence ==
    /\ [][OthersUntouched]_vars
    /\ []AloneAgrees

\* both cameras have reported, and the second camera's report was made
\* between the first camera's report and its first "after" frame
C13_Witness ==
    /\ Len(reports) = 2
    /\ reports[1].camera_id = DefaultCamera
    /\ reports[2].camera_id = "LIVE_CAM_2"
    /\ ret.val[DefaultCamera].reports = ReportKeys(<<reports[1]>>)
    /\ ret.val["LIVE_CAM_2"].reports = ReportKeys(<<reports[2]>>)
    /\ \E i, j \in 1 .. Len(files) :
          /\ i < j
          /\ files[i].name[1] = "main"
          /\ files[i].name[2][1] = "LIVE_CAM_2"
          /\ files[j].name[1] = "post"
          /\ files[j].name[2][1] = DefaultCamera

(***************************************************************************)
(* Concurrent requests of one camera.  detect_accident is a coroutine of   *)
(* one event loop: a request runs from one suspension point to the next    *)
(* without interruption.  `call.arg` is the set of requests in flight,     *)
(* each with the point where it is suspended; `ret` keeps the state, the   *)
(* reports and the files obtained by handling the frames one at a time, in *)
(* the order in which the requests resumed after their read.               *)
(***************************************************************************)
\* a plausible slip: the backend is called through an awaited client
SuspensionPointsWithSend == {"read", "send"}

\* main.py 273: the one await of detect_accident
SuspensionPoints == {"read"}

NoLocals == [now_ts |-> 0, incident_id |-> 0, best |-> [severity |-> "MINOR"]]

\* main.py 287-509: the handler from the decoded frame to the call of the
\* backend: the outcome, the state it leaves, the files it writes and the
\* report it is about to send
BeforeSend(state, camera_id, img, now_ts, uuid) ==
    LET post == AfterPostCapture(state, img, NoFault)
        r == ScoreOfScene[img.scene]
        annotated_img == <<"plot", img>>
        state3 == AfterAccumulate(post.state, r, annotated_img)
        final_decision == state3.accident_counter >= ACCIDENT_CONFIRM_FRAMES
        in_cooldown == InCooldown(state3, now_ts)
        best == BestFrame(state3, r, annotated_img)
        incident_tag == <<camera_id, now_ts>>
        main_files == MainFiles(best, incident_tag, uuid, NoFault)
    IN  IF ~final_decision
        THEN [outcome |-> "none", state |-> state3, written |-> post.written]
        ELSE IF in_cooldown
        THEN [outcome |-> "cooldown", state |-> state3, written |-> post.written]
        ELSE [outcome |-> "final",
              state |-> [state3 EXCEPT !.current_incident_tag = incident_tag,
                                       !.post_capture_remaining = POST_CAPTURE_FRAMES,
                                       !.post_capture_counter = 0],
              written |-> post.written \o PreFiles(state3, incident_tag, NoFault)
                                       \o main_files,
              report |-> [camera_id |-> camera_id,
                          severity |-> best.severity,
                          victims |-> best.victims_estimated,
                          source |-> "LIVE_YOLO",
                          snapshot_url |-> main_files[1].name,
                          time |-> now_ts,
                          frame |-> img],
              best |-> [severity |-> best.severity]]

\* main.py 546-549
AfterSend(state, now_ts) ==
    [state EXCEPT !.last_alert_time = now_ts,
                  !.accident_counter = 0,
                  !.candidate_frames = <<>>]

\* the requests accepted so far
Accepted == decoded[DefaultCamera] + Cardinality({q \in call.arg : q.pc = "read"})

InitInflight ==
    /\ InitLive
    /\ call = [fn |-> "detect_accident", arg |-> {}]
    /\ ret = Ret(AloneInit)

\* main.py 258-273: a request arrives and waits for its upload
AcceptRequest ==
    \E scene \in {"empty", "car_hits_person"} :
        /\ Accepted < MaxFramesInflight
        /\ Cardinality(call.arg) < MaxInflight
        /\ call' = [call EXCEPT !.arg = @ \cup {[id |-> Accepted + 1, scene |-> scene,
                                                 pc |-> "read", locals |-> NoLocals]}]
        /\ UNCHANGED ret
        /\ UNCHANGED liveVars

\* main.py 275-558: a request in flight runs to its next suspension point or
\* to its end
ResumeRequest ==
    \E q \in call.arg, backend \in BackendReplies :
        LET camera_id == DefaultCamera
            img == [scene |-> q.scene, seq |-> q.id]
            states == CameraStatesWith(camera_id)
            b == BeforeSend(states[camera_id], camera_id, img, now,
                            <<"uuid", Len(reports) + 1>>)
        IN  /\ UNCHANGED <<now, ticks, faulted>>
            /\ IF q.pc = "read"
               THEN /\ decoded' = [decoded EXCEPT ![camera_id] = @ + 1]
                    /\ req' = [camera_id |-> camera_id, img |-> img]
                    /\ ret' = Ret(AloneStep(ret.val, camera_id, img, now))
                    /\ files' = files \o b.written
                    /\ IF b.outcome # "final"
                       THEN /\ backend = "none"
                            /\ camera_states' = [states EXCEPT ![camera_id] = b.state]
                            /\ response' =
                                 ZeroResponse(IF b.outcome = "none"
                                              THEN "No accident detected (temporal-smoothed)."
                                              ELSE "Accident already reported recently (cooldown active).")
                            /\ call' = [call EXCEPT !.arg = @ \ {q}]
                            /\ UNCHANGED reports
                       ELSE IF "send" \in SuspensionPoints
                       THEN /\ backend = "none"
                            /\ camera_states' = [states EXCEPT ![camera_id] = b.state]
                            /\ reports' = Append(reports, b.report)
                            /\ call' = [call EXCEPT !.arg =
                                          (@ \ {q}) \cup
                                             {[q EXCEPT !.pc = "send",
                                                        !.locals = [now_ts |-> now,
                                                                    incident_id |-> Len(reports) + 1,
                                                                    best |-> b.best]]}]
                            /\ UNCHANGED response
                       ELSE /\ camera_states' =
                                 [states EXCEPT ![camera_id] = AfterSend(b.state, now)]
                            /\ reports' = Append(reports, b.report)
                            /\ response' = FinalResponse(b.best, backend, Len(reports) + 1)
                            /\ call' = [call EXCEPT !.arg = @ \ {q}]
               ELSE /\ camera_states' =
                         [camera_states EXCEPT ![camera_id] = AfterSend(@, q.locals.now_ts)]
                    /\ response' = FinalResponse(q.locals.best, backend, q.locals.incident_id)
                    /\ call' = [call EXCEPT !.arg = @ \ {q}]
                    /\ UNCHANGED <<decoded, req, ret, files, reports>>

NextInflight == AcceptRequest \/ ResumeRequest \/ ClockAdvances

SpecInflight == InitInflight /\ [][NextInflight]_vars

\* C14: with several requests of one camera in flight, no request is
\* suspended after it has read or written the camera's state, and in every
\* reachable state the camera's state, the reports and the files are those of
\* handling the frames one at a time, in the order in which the requests
\* resumed after their read.
C14_Serialized ==
    /\ \A q \in call.arg : q.pc = "read"
    /\ StateBefore(DefaultCamera) = ret.val.state
    /\ ReportKeys(reports) = ret.val.reports
    /\ FileKeys(files) = ret.val.files

\* three requests were in flight together; they resumed in another order than
\* they arrived, the last of them finalized an incident, and a request is
\* still in flight
C14_Witness ==
    /\ Len(reports) = 1
    /\ reports[1].frame.seq = 1
    /\ camera_states[DefaultCamera].frame_buffer[1].seq = 3
    /\ camera_states[DefaultCamera].frame_buffer[2].seq = 2
    /\ Len(camera_states[DefaultCamera].frame_buffer) = 3
    /\ Cardinality(call.arg) = 1
    /\ ret.val.reports = ReportKeys(reports)

(***************************************************************************)
(* Further claims about detect_accident.                                   *)
(***************************************************************************)
\* C27: in every reachable state, for every camera: the raw buffer holds at
\* most FRAME_BUFFER_SIZE frames and the candidate pool at most its capacity;
\* the streak counter is >= 0; 0 <= post_capture_remaining <=
\* POST_CAPTURE_FRAMES; while no incident tag is assigned the countdown and
\* the running index are 0; once a tag is assigned, post_capture_counter +
\* post_capture_remaining = POST_CAPTURE_FRAMES.
C27_StateInvariant ==
    \A c \in DOMAIN camera_states :
       LET state == camera_states[c]
       IN  /\ Len(state.frame_buffer) <= FRAME_BUFFER_SIZE
           /\ Len(state.candidate_frames) <= CANDIDATE_MAXLEN
           /\ state.accident_counter >= 0
           /\ 0 <= state.post_capture_remaining
           /\ state.post_capture_remaining <= POST_CAPTURE_FRAMES
           /\ state.post_capture_counter >= 0
           /\ state.current_incident_tag = NoTag =>
                 /\ state.post_capture_remaining = 0
                 /\ state.post_capture_counter = 0
           /\ state.current_incident_tag # NoTag =>
                 state.post_capture_counter + state.post_capture_remaining
                    = POST_CAPTURE_FRAMES

\* the buffer has evicted a frame, the pool is full, a tag is assigned, a save
\* of an "after" frame has raised and the countdown is under way
C27_Witness ==
    /\ DefaultCamera \in DOMAIN camera_states
    /\ Len(camera_states[DefaultCamera].frame_buffer) = FRAME_BUFFER_SIZE
    /\ camera_states[DefaultCamera].frame_buffer[1].seq > 1
    /\ Len(camera_states[DefaultCamera].candidate_frames) = CANDIDATE_MAXLEN
    /\ camera_states[DefaultCamera].accident_counter >= CANDIDATE_MAXLEN
    /\ camera_states[DefaultCamera].current_incident_tag # NoTag
    /\ camera_states[DefaultCamera].post_capture_remaining > 0
    /\ camera_states[DefaultCamera].post_capture_counter > 0
    /\ \E k \in 1 .. Len(faulted) : faulted[k].kind = "post"

\* the "before" files written by this step under the tag of this step
NewPreFiles(c) ==
    SelectSeq(NewFiles, LAMBDA f : f.name[1] = "pre" /\ f.name[2] = <<c, now>>)

\* the step is a request of camera c that sends a report
FinalizedStep(c) == Len(ReportsOf(reports', c)) = Len(ReportsOf(reports, c)) + 1

\* the save of a "before" frame raised in this step
PreSaveRaised ==
    /\ Len(faulted') = Len(faulted) + 1
    /\ faulted'[Len(faulted')].kind = "pre"

\* after a decoded frame of camera c the buffer holds the camera's last
\* min(FRAME_BUFFER_SIZE, decoded) frames in arrival order, the frame of this
\* step last
BufferedInOrder(c) ==
    LET buf == camera_states'[c].frame_buffer
        n == Len(buf)
    IN  /\ n = Min2(decoded'[c], FRAME_BUFFER_SIZE)
        /\ \A k \in 1 .. n : buf[k].seq = decoded'[c] - n + k
        /\ \A k \in 1 .. n - 1 : buf[k] = StateBefore(c).frame_buffer[
                                     Len(StateBefore(c).frame_buffer) - (n - 1) + k]
        /\ buf[n] = req'.img

\* the first m "before" files of this step are the first m of the last
\* min(PRE_SNAPSHOT_COUNT, n) buffered frames, numbered from 0
PreFilesFromBuffer(c, m) ==
    LET buf == camera_states'[c].frame_buffer
        n == Len(buf)
        k == Min2(PRE_SNAPSHOT_COUNT, n)
        P == NewPreFiles(c)
    IN  /\ Len(P) = m
        /\ m <= k
        /\ \A j \in 1 .. m : P[j].img = buf[n - k + j] /\ P[j].name[3] = j - 1

\* C21 as stated: every decoded frame, flagged or not, is appended to the
\* camera's buffer, the oldest evicted beyond capacity; at every finalization
\* the "before" evidence is exactly the last min(PRE_SNAPSHOT_COUNT, n) frames
\* of the buffer, oldest first, ending with the confirming frame, and has
\* fewer than PRE_SNAPSHOT_COUNT frames only when fewer have been received.
C21_Original ==
    [][\A c \in Cameras :
          DecodedStep(c) =>
             /\ BufferedInOrder(c)
             /\ FinalizedStep(c) =>
                   LET n == Len(camera_states'[c].frame_buffer)
                       k == Min2(PRE_SNAPSHOT_COUNT, n)
                   IN  /\ PreFilesFromBuffer(c, k)
                       /\ NewPreFiles(c)[k].img = req'.img
                       /\ k < PRE_SNAPSHOT_COUNT => decoded'[c] < PRE_SNAPSHOT_COUNT
      ]_vars

\* C21 (amended): every decoded frame, flagged or not, is appended to the
\* camera's buffer, the oldest evicted beyond capacity; at every finalization
\* where no save of a "before" frame raises, the "before" evidence is exactly
\* the last min(PRE_SNAPSHOT_COUNT, n) frames of the buffer, oldest first,
\* ending with the confirming frame, and has fewer than PRE_SNAPSHOT_COUNT
\* frames only when fewer have been received; where a save raises, the
\* evidence is the frames of that window before the one whose save raised.
C21_BeforeEvidence ==
    [][\A c \in Cameras :
          DecodedStep(c) =>
             /\ BufferedInOrder(c)
             /\ (FinalizedStep(c) /\ ~PreSaveRaised) =>
                   LET n == Len(camera_states'[c].frame_buffer)
                       k == Min2(PRE_SNAPSHOT_COUNT, n)
                   IN  /\ PreFilesFromBuffer(c, k)
                       /\ NewPreFiles(c)[k].img = req'.img
                       /\ k < PRE_SNAPSHOT_COUNT => decoded'[c] < PRE_SNAPSHOT_COUNT
             /\ (FinalizedStep(c) /\ PreSaveRaised) =>
                   /\ PreFilesFromBuffer(c, Len(NewPreFiles(c)))
                   /\ Len(NewPreFiles(c))
                         < Min2(PRE_SNAPSHOT_COUNT, Len(camera_states'[c].frame_buffer))
      ]_vars

\* the "before" files of the i-th report
PreFilesOfReport(i) ==
    SelectSeq(files, LAMBDA f : /\ f.name[1] = "pre"
                                /\ f.name[2] = <<reports[i].camera_id, reports[i].time>>)

\* a first incident with fewer than PRE_SNAPSHOT_COUNT frames of "before"
\* evidence, and a second one finalized on a full buffer that has evicted,
\* with PRE_SNAPSHOT_COUNT frames that end with the confirming frame
C21_Witness ==
    /\ Len(reports) = 2
    /\ faulted = <<>>
    /\ Len(PreFilesOfReport(1)) = ACCIDENT_CONFIRM_FRAMES
    /\ Len(PreFilesOfReport(2)) = PRE_SNAPSHOT_COUNT
    /\ PreFilesOfReport(2)[PRE_SNAPSHOT_COUNT].img = reports[2].frame
    /\ reports[2].frame.seq > FRAME_BUFFER_SIZE
    /\ req.img = reports[2].frame

(***************************************************************************)
(* Further claims about analyze_video.                                     *)
(***************************************************************************)
\* an accident was reported for the upload
VideoReported == VideoAnalyzed /\ Len(reports) = 1

VideoFilesOf(kind) == SelectSeq(files, LAMBDA f : f.name[1] = kind)

\* the files F are the frames of the video with the indices lo..hi other than
\* `skipped`, in original order, numbered from 0
FilesAreVideoFrames(F, lo, hi, skipped) ==
    LET idx == {i \in lo .. hi : i # skipped}
    IN  /\ Len(F) = Cardinality(idx)
        /\ \A k \in 1 .. Len(F) :
              /\ F[k].name[3] = k - 1
              /\ F[k].img.seq \in idx
              /\ F[k].img = VideoFrame(call.arg, F[k].img.seq)
              /\ Cardinality({i \in idx : i < F[k].img.seq}) = k - 1

\* the frame whose save as `kind` raised, 0 if none
RaisedAt(kind) == IF ret.val.fault[1] = kind THEN ret.val.fault[2] ELSE 0

\* the second pass stops at the first index above b + POST_CAPTURE_FRAMES or
\* at the end of the video
Pass2StopsAt(b) ==
    ret.val.pass2.frame_index = Min2(Len(call.arg), b + POST_CAPTURE_FRAMES + 1)

\* C22 as stated: with best index b in a video of N frames, the "before"
\* files are exactly the frames max(1, b-PRE_SNAPSHOT_COUNT) .. b-1 in order,
\* the "main" file is the annotated image of pass 1, saved once, the "after"
\* files are exactly the frames b+1 .. min(N, b+POST_CAPTURE_FRAMES) in order,
\* no frame is in two sets, and the second pass stops at the first index
\* above b+POST_CAPTURE_FRAMES or at the end of the video.
C22_Original ==
    VideoReported =>
       LET b == ret.val.pass1.best_frame_index
           N == Len(call.arg)
       IN  /\ FilesAreVideoFrames(VideoFilesOf("video_pre"),
                                  Max2(1, b - PRE_SNAPSHOT_COUNT), b - 1, 0)
           /\ Len(VideoFilesOf("video_main")) = 1
           /\ VideoFilesOf("video_main")[1].img = <<"plot", VideoFrame(call.arg, b)>>
           /\ FilesAreVideoFrames(VideoFilesOf("video_post"),
                                  b + 1, Min2(N, b + POST_CAPTURE_FRAMES), 0)
           /\ Pass2StopsAt(b)

\* C22 (amended): with best index b in a video of N frames, the "before"
\* files are the frames max(1, b-PRE_SNAPSHOT_COUNT) .. b-1 in order and the
\* "after" files the frames b+1 .. min(N, b+POST_CAPTURE_FRAMES) in order,
\* each without the frame whose save raised, if any; the "main" file is the
\* annotated image of pass 1, saved once, or is absent when the plot or the
\* save raised; no frame is in two sets; the second pass stops at the first
\* index above b+POST_CAPTURE_FRAMES or at the end of the video.
C22_Pass2Windows ==
    VideoReported =>
       LET b == ret.val.pass1.best_frame_index
           N == Len(call.arg)
           Pre == VideoFilesOf("video_pre")
           Main == VideoFilesOf("video_main")
           Post == VideoFilesOf("video_post")
       IN  /\ FilesAreVideoFrames(Pre, Max2(1, b - PRE_SNAPSHOT_COUNT), b - 1,
                                  RaisedAt("video_pre"))
           /\ FilesAreVideoFrames(Post, b + 1, Min2(N, b + POST_CAPTURE_FRAMES),
                                  RaisedAt("video_post"))
           /\ IF ret.val.fault[1] \in {"video_plot", "video_main"}
              THEN Main = <<>> /\ reports[1].snapshot_url = NoUrl
              ELSE /\ Len(Main) = 1
                   /\ Main[1].img = <<"plot", VideoFrame(call.arg, b)>>
                   /\ reports[1].snapshot_url = Main[1].name
           /\ Len(files) = Len(Pre) + Len(Main) + Len(Post)
           /\ \A j \in 1 .. Len(Pre), k \in 1 .. Len(Post) :
                 /\ Pre[j].img.seq # Post[k].img.seq
                 /\ Pre[j].img.seq # b
                 /\ Post[k].img.seq # b
           /\ Pass2StopsAt(b)

\* a video that goes on after the "after" window: the frames before the best
\* one, the annotated image and a full "after" window are saved, and the
\* second pass stops before the end of the video
C22_Witness ==
    /\ VideoReported
    /\ ret.val.fault = NoFault
    /\ ret.val.pass1.best_frame_index = VIDEO_CONFIRM_FRAMES * FRAME_STEP
    /\ Len(call.arg) > VIDEO_CONFIRM_FRAMES * FRAME_STEP + POST_CAPTURE_FRAMES + 1
    /\ Len(VideoFilesOf("video_pre")) = PRE_SNAPSHOT_COUNT
    /\ Len(VideoFilesOf("video_post")) = POST_CAPTURE_FRAMES
    /\ Len(VideoFilesOf("video_main")) = 1
    /\ ret.val.pass2.frame_index
          = VIDEO_CONFIRM_FRAMES * FRAME_STEP + POST_CAPTURE_FRAMES + 1

\* a guarded call raised in this step
FaultRaised == Len(faulted') = Len(faulted) + 1

FaultKind == faulted'[Len(faulted')].kind

\* C23: when the save of a "before" frame or of the main image raises at a
\* finalization, the report is still sent, without a main locator exactly
\* when the main save raised, and the countdown is armed, the streak and the
\* pool are reset and the cooldown starts as usual; when the save of an
\* "after" frame raises, the streak, the pool, the buffer, the cooldown and
\* the report of that request are those of the same request with a save that
\* succeeds.
C23_SaveFailures ==
    [][\A c \in Cameras :
          (DecodedStep(c) /\ FaultRaised) =>
             LET pre == StateBefore(c)
                 post == camera_states'[c]
             IN  /\ FaultKind \in {"pre", "main"} =>
                       /\ FinalizedStep(c)
                       /\ reports'[Len(reports')].frame = req'.img
                       /\ (reports'[Len(reports')].snapshot_url = NoUrl)
                             <=> (FaultKind = "main")
                       /\ post.post_capture_remaining = POST_CAPTURE_FRAMES
                       /\ post.post_capture_counter = 0
                       /\ post.current_incident_tag = <<c, now>>
                       /\ post.accident_counter = 0
                       /\ post.candidate_frames = <<>>
                       /\ post.last_alert_time = now
                       /\ "accidents_detected" \in DOMAIN response'
                       /\ response'.message[1] = "Live accident confirmed. Severity="
                 /\ FaultKind = "post" =>
                       LET ok == AloneStep([state |-> pre, reports |-> <<>>, files |-> <<>>],
                                           c, req'.img, now)
                       IN  /\ post.accident_counter = ok.state.accident_counter
                           /\ post.candidate_frames = ok.state.candidate_frames
                           /\ post.frame_buffer = ok.state.frame_buffer
                           /\ post.last_alert_time = ok.state.last_alert_time
                           /\ FinalizedStep(c) <=> (ok.reports # <<>>)
                           /\ FinalizedStep(c) =>
                                 ReportKeys(<<reports'[Len(reports')]>>) = ok.reports
                           /\ ~FinalizedStep(c) =>
                                 /\ post.post_capture_remaining = pre.post_capture_remaining
                                 /\ post.post_capture_counter = pre.post_capture_counter
      ]_vars

\* the second save of the "before" frames raised at a finalization: one
\* "before" file and the main image are there, the report was sent with its
\* locator, and the camera is in cooldown with the countdown armed
C23_Witness ==
    /\ Len(faulted) = 1
    /\ faulted[1].kind = "pre"
    /\ Len(reports) = 1
    /\ reports[1].frame.seq = faulted[1].seq
    /\ reports[1].snapshot_url # NoUrl
    /\ Len(PreFilesOfReport(1)) = 1
    /\ req.img = reports[1].frame
    /\ camera_states[DefaultCamera].last_alert_time = reports[1].time
    /\ camera_states[DefaultCamera].post_capture_remaining = POST_CAPTURE_FRAMES
    /\ camera_states[DefaultCamera].accident_counter = 0

\* the candidate pool of camera c when the handler of this step reaches the
\* choice of the best frame (main.py 436-442), whatever the save of an "after"
\* frame did before
PoolAtChoice(c) ==
    LET img == req'.img
        fault == IF FaultRaised /\ FaultKind = "plot" THEN <<"plot", 0>> ELSE NoFault
        annotated_img == IF fault[1] = "plot" THEN <<"copy", img>> ELSE <<"plot", img>>
    IN  AfterAccumulate(StateBefore(c), ScoreOfScene[img.scene], annotated_img).candidate_frames

\* the pool q is the pool p after one append: the new entry is last and the
\* oldest entry is the only one that may have gone
AppendedKeepingNewest(p, q, img) ==
    /\ Len(q) = Min2(Len(p) + 1, CANDIDATE_MAXLEN)
    /\ q[Len(q)].annotated_img[2] = img
    /\ \A k \in 1 .. Len(q) - 1 : q[k] = p[Len(p) - (Len(q) - 1) + k]

\* C25: a finalization happens only on a flagged frame, with a pool that is
\* not empty and whose last entry is that frame's, so the choice of the best
\* frame never falls back on the current frame for want of candidates; a
\* flagged frame that does not finalize leaves its entry last in the pool,
\* which has lost at most its oldest entry and is within its capacity.
C25_FinalizationHasCandidates ==
    [][\A c \in Cameras :
          DecodedStep(c) =>
             LET pre == StateBefore(c).candidate_frames
                 post == camera_states'[c].candidate_frames
             IN  /\ Len(post) <= CANDIDATE_MAXLEN
                 /\ FinalizedStep(c) =>
                       /\ Flagged(req'.img)
                       /\ Len(PoolAtChoice(c)) >= 1
                       /\ PoolAtChoice(c)[Len(PoolAtChoice(c))].annotated_img[2] = req'.img
                       /\ ChooseBest(PoolAtChoice(c)) # NoEntry
                       /\ reports'[Len(reports')].severity
                             = ChooseBest(PoolAtChoice(c)).severity
                 /\ (Flagged(req'.img) /\ ~FinalizedStep(c)) =>
                       AppendedKeepingNewest(pre, post, req'.img)
                 /\ ~Flagged(req'.img) => post = pre
      ]_vars

\* a flagged frame reached a full pool during the cooldown: the oldest entry
\* went and the frame's own entry is last, after a finalization
C25_Witness ==
    /\ Len(reports) = 1
    /\ Flagged(req.img)
    /\ req.img.seq > reports[1].frame.seq + CANDIDATE_MAXLEN
    /\ Len(camera_states[DefaultCamera].candidate_frames) = CANDIDATE_MAXLEN
    /\ camera_states[DefaultCamera].candidate_frames[CANDIDATE_MAXLEN].annotated_img[2] = req.img
    /\ camera_states[DefaultCamera].candidate_frames[1].annotated_img[2].seq
          = req.img.seq - CANDIDATE_MAXLEN + 1

\* the frame whose entry the handler of this step chooses as best
BestSourceFrame(c) == ChooseBest(PoolAtChoice(c)).annotated_img[2]

\* the frame img of camera c is buffered after this step and every frame
\* buffered from it on, up to the frame of this step, is flagged
InConfirmingRun(c, img) ==
    LET buf == camera_states'[c].frame_buffer
    IN  \E k \in 1 .. Len(buf) :
           /\ buf[k] = img
           /\ \A j \in k .. Len(buf) : Flagged(buf[j])

\* C24: at every finalization the entry chosen as best, and with it the
\* image of the main evidence, comes from a frame of the unbroken run of
\* flagged frames that ends at the confirming frame, never from a flagged
\* frame received before the most recent frame that was not flagged.
C24_NoStaleBest ==
    [][\A c \in Cameras :
          (DecodedStep(c) /\ FinalizedStep(c)) =>
             /\ InConfirmingRun(c, BestSourceFrame(c))
             /\ \A k \in 1 .. Len(NewFiles) :
                   NewFiles[k].name[1] = "main" =>
                      InConfirmingRun(c, NewFiles[k].img[2])
      ]_vars

(***************************************************************************)
(* The accident flag against the severity.                                 *)
(***************************************************************************)
\* what one scoring r says of a frame
ScoringConsistent(r) ==
    /\ r.total_danger_detections = r.vehicle_count + r.person_count
    /\ r.severity \in {"MEDIUM", "MAJOR", "CRITICAL"} => r.accident_detected_frame
    /\ ~r.accident_detected_frame => r.severity = "MINOR"
    /\ r.victims_estimated >= 1
    /\ r.severity = "MEDIUM" => r.victims_estimated >= 2

\* the candidate entry of a flagged frame on a new stream, and the incident
\* data chosen from it (main.py 397-409, 436-461)
EntryOfScoring(r) ==
    AfterAccumulate(NewCameraState, r, <<"plot", 0>>).candidate_frames

ChosenOfScoring(r) ==
    BestFrame([NewCameraState EXCEPT !.candidate_frames = EntryOfScoring(r)],
              r, <<"plot", 0>>)

\* the best-frame data of a video whose first confirmed frame has the
\* scoring r (main.py 715-729)
VideoChosenOfScoring(r) ==
    IF IsBetter(r.severity_score, r.max_overlap_ratio, Pass1Init)
    THEN [severity |-> r.severity, victims_estimated |-> r.victims_estimated]
    ELSE [severity |-> Pass1Init.best_severity, victims_estimated |-> Pass1Init.best_victims]

\* C28: in both handlers, for every frame, the danger count is the sum of
\* the vehicle and person counts; a frame of severity MEDIUM, MAJOR or
\* CRITICAL is flagged and a frame that is not flagged is MINOR; the
\* candidate entry of a flagged frame and the incident data chosen from it
\* have victims_estimated >= 1, and >= 2 when the severity is MEDIUM.
C28_FlagAndSeverity ==
    ScoreBothDone =>
       /\ ScoringConsistent(ret.val.live)
       /\ ScoringConsistent(ret.val.video)
       /\ ret.val.live.accident_detected_frame =>
             /\ Len(EntryOfScoring(ret.val.live)) = 1
             /\ EntryOfScoring(ret.val.live)[1].victims_estimated >= 1
             /\ EntryOfScoring(ret.val.live)[1].severity = ret.val.live.severity
             /\ ChosenOfScoring(ret.val.live).victims_estimated >= 1
             /\ ChosenOfScoring(ret.val.live).severity = "MEDIUM" =>
                   ChosenOfScoring(ret.val.live).victims_estimated >= 2
       /\ ret.val.video.accident_detected_frame =>
             /\ VideoChosenOfScoring(ret.val.video).victims_estimated >= 1
             /\ VideoChosenOfScoring(ret.val.video).severity = "MEDIUM" =>
                   VideoChosenOfScoring(ret.val.video).victims_estimated >= 2

\* a flagged frame of severity MINOR: two cars and one person, no two boxes
\* overlapping, and a dog that is not counted
C28_Witness ==
    /\ ScoreBothDone
    /\ Len(call.arg) = MaxDet
    /\ ret.val.live.accident_detected_frame
    /\ ret.val.live.severity = "MINOR"
    /\ ret.val.live.vehicle_count = 2
    /\ ret.val.live.person_count = 1
    /\ ret.val.live.total_danger_detections = 3
    /\ ret.val.video.accident_detected_frame
    /\ ret.val.video.severity = "MINOR"

(***************************************************************************)
(* Batch jobs beside a live stream: uploads are analyzed one after the     *)
(* other, between the frames of the default camera, and the clock may or   *)
(* may not advance between two requests.                                   *)
(***************************************************************************)
VideoReports == SelectSeq(reports, LAMBDA rp : rp.source = "VIDEO")

OnLiveFrameBesideJobs ==
    \E scene \in {"empty", "car_hits_person"}, backend \in BackendReplies :
        /\ decoded[DefaultCamera] < MaxFramesJobs
        /\ DetectAccidentDecoded(DefaultCamera, scene, NoFault, backend)
        /\ call' = [fn |-> "detect_accident", arg |-> <<DefaultCamera, scene>>]
        /\ ret' = Ret([backend |-> backend])

OnVideoJob ==
    \E frames \in EndpointUploads, backend \in BackendReplies :
        /\ Len(VideoReports) < MaxUploads
        /\ AnalyzeVideo(frames, NoFault, backend)
        /\ call' = [fn |-> "analyze_video", arg |-> frames]

ClockAdvancesBesideJobs == Tick /\ UNCHANGED pureVars

NextJobs == OnLiveFrameBesideJobs \/ OnVideoJob \/ ClockAdvancesBesideJobs

SpecJobs == Init /\ [][NextJobs]_vars

\* the names of the evidence files written so far
FileNames == {files[k].name : k \in 1 .. Len(files)}

\* the request of this step sent a report
ReportedStep == Len(reports') = Len(reports) + 1

\* C26: a batch job writes no evidence file under a name that an earlier job
\* or a live stream has written, a live request writes none under a name
\* written before, so that no evidence is overwritten; and a live
\* finalization assigns a tag that no earlier incident was given.
C26_DisjointEvidence ==
    [][/\ \A k \in 1 .. Len(NewFiles) : NewFiles[k].name \notin FileNames
       /\ \A k, j \in 1 .. Len(NewFiles) :
             k # j => NewFiles[k].name # NewFiles[j].name
       /\ (ReportedStep /\ reports'[Len(reports')].source = "LIVE_YOLO") =>
             <<reports'[Len(reports')].camera_id, reports'[Len(reports')].time>>
                \notin TagsGiven
      ]_vars

=============================================================================
